---- MODULE Spec2Model ----
(***************************************************************************)
(* Interview session state machine of the AI interviewer backend:          *)
(* InterviewerAgent (stage controller), CoordinatorAgent (routing),        *)
(* EvaluatorAgent, FinalEvaluatorAgent and the SessionManager registry     *)
(* with the request handlers that drive them.                              *)
(*                                                                         *)
(* A text is a sequence of atoms; an atom is a fixed piece of a string     *)
(* (a word, a punctuation mark, a code keyword, a JSON member).  String    *)
(* concatenation is \o, the empty string is <<>>, and Python's None is     *)
(* the distinguished value NONE.  Every generation call takes its outcome  *)
(* as an argument: a text, or FAIL when the call raises.                   *)
(***************************************************************************)
EXTENDS Integers, Sequences, FiniteSets, TLC

\* ---------------------------------------------------------------- bounds
MaxNotes == 6
MaxFailures == 1
MaxSubmissions == 1
MaxAtoms == 2
MaxObjects == 2
MaxAppends == 3

\* ------------------------------------------------------- program constants
IntroWordLimit == 50
HighlightWordLimit == 100
RecentExchanges == 4
DegradedScore == 5
WindowChars == 100

\* ------------------------------------------------------------------ stages
INTRODUCTION == "introduction"
RESUME_DISCUSSION == "resume_discussion"
TECHNICAL_QUESTIONS == "technical_questions"
CODING_PROBLEM == "coding_problem"
CODE_EVALUATION == "code_evaluation"
FOLLOW_UP == "follow_up"
FINAL_EVALUATION == "final_evaluation"

InterviewStage ==
  {INTRODUCTION, RESUME_DISCUSSION, TECHNICAL_QUESTIONS, CODING_PROBLEM,
   CODE_EVALUATION, FOLLOW_UP, FINAL_EVALUATION}

\* ------------------------------------------------------------------- texts
NONE == <<"<None>">>
FAIL == <<"<raise>">>
EMPTY == <<>>

\* Python truthiness of an Optional[str]
Truthy(t) == t # NONE /\ t # EMPTY

\* str.split() counts: an atom "Wn" stands for a run of n words, a
\* whitespace atom for none, any other atom for one word.
AtomWords(a) ==
  CASE a = "W49" -> 49
    [] a = "W50" -> 50
    [] a = "W100" -> 100
    [] a = "W101" -> 101
    [] a \in {" ", "\n", "\n\n"} -> 0
    [] OTHER -> 1

RECURSIVE WordCount(_)
WordCount(t) ==
  IF t = <<>> THEN 0 ELSE AtomWords(Head(t)) + WordCount(Tail(t))

\* str.lower() on the atoms that the code lower-cases
LowerAtom(a) ==
  CASE a = "I could not extract" -> "i could not extract"
    [] OTHER -> a

\* str.find: index (1-based) of the first occurrence of atom a, 0 if none
RECURSIVE FindFrom(_, _, _)
FindFrom(t, a, i) ==
  IF i > Len(t) THEN 0
  ELSE IF t[i] = a THEN i ELSE FindFrom(t, a, i + 1)

Find(t, a) == FindFrom(t, a, 1)

Contains(t, a) == \E i \in 1..Len(t) : t[i] = a

\* str.strip() of whitespace atoms
RECURSIVE LStrip(_)
LStrip(t) ==
  IF t # <<>> /\ Head(t) \in {" ", "\n", "\n\n"} THEN LStrip(Tail(t)) ELSE t

RECURSIVE RStrip(_)
RStrip(t) ==
  IF t # <<>> /\ t[Len(t)] \in {" ", "\n", "\n\n"}
  THEN RStrip(SubSeq(t, 1, Len(t) - 1)) ELSE t

Strip(t) == RStrip(LStrip(t))

\* str.split(","): the pieces between "," atoms; "" splits into [""]
RECURSIVE SplitComma(_)
SplitComma(t) ==
  LET i == Find(t, ",")
  IN IF i = 0 THEN <<t>>
     ELSE <<SubSeq(t, 1, i - 1)>> \o SplitComma(SubSeq(t, i + 1, Len(t)))

\* "\n".join(texts)
RECURSIVE JoinLines(_)
JoinLines(ts) ==
  IF ts = <<>> THEN <<>>
  ELSE IF Len(ts) = 1 THEN ts[1]
  ELSE ts[1] \o <<"\n">> \o JoinLines(Tail(ts))

\* dict[k] = v on a dict that may not have the key
Put(d, k, v) == [x \in DOMAIN d \cup {k} |-> IF x = k THEN v ELSE d[x]]

\* dict.get(k, default)
Get(d, k, default) == IF k \in DOMAIN d THEN d[k] ELSE default

\* ------------------------------------------------- one call on a coordinator
\* The coordinator object together with what the running call has done so
\* far: stage/notes/ctx are InterviewerAgent.current_stage,
\* InterviewerAgent.interview_notes and CoordinatorAgent.interview_context;
\* calls is the sequence of generation requests issued (kind, inputs and
\* outcome), ret the text returned, rec the record returned, exc whether
\* an exception is propagating, branch the routing branch taken.
Note(stage, content) == [stage |-> stage, content |-> content]

Call(kind, args, out) == [kind |-> kind, args |-> args, out |-> out]

NoRec == [none |-> TRUE]

\* a blocking generation request: logged, then either returns g or raises
Invoke(s, kind, args, g) ==
  [s EXCEPT !.calls = Append(@, Call(kind, args, g)), !.exc = (g = FAIL)]

\* the entry of a generated text put in front of the transcript
Record_front(s, response) ==
  [s EXCEPT !.notes = <<Note(s.stage, response)>> \o @, !.ret = response]

\* the transcript entry of a generated text, tagged with the current stage
Record(s, response) ==
  [s EXCEPT !.notes = Append(@, Note(s.stage, response)), !.ret = response]

\* ------------------------------------------------------- InterviewerAgent
\* start_interview without the transcript entry
start_interview_unrecorded(s, candidate_name, g) ==
  LET Returned(s1) == IF s1.exc THEN s1 ELSE [s1 EXCEPT !.ret = g]
  IN Returned(Invoke(s, "introduction", <<candidate_name>>, g))

start_interview(s, candidate_name, g) ==
  LET Returned(s1) == IF s1.exc THEN s1 ELSE Record(s1, g)
  IN Returned(Invoke(s, "introduction", <<candidate_name>>, g))

\* the questions asked under the stage of the resume discussion
ask_technical_questions_resuming(s, background, role, difficulty, g) ==
  LET Returned(s2) == IF s2.exc THEN s2 ELSE Record(s2, g)
  IN Returned(Invoke([s EXCEPT !.stage = RESUME_DISCUSSION],
                     "technical_questions", <<background, role, difficulty>>, g))

ask_technical_questions(s, background, role, difficulty, g) ==
  LET Returned(s2) == IF s2.exc THEN s2 ELSE Record(s2, g)
  IN Returned(Invoke([s EXCEPT !.stage = TECHNICAL_QUESTIONS],
                     "technical_questions", <<background, role, difficulty>>, g))

\* context.lower().startswith("i could not extract")
IsPlaceholder(context) ==
  context # <<>> /\ LowerAtom(context[1]) = "i could not extract"

\* the rewritten intro replaces what precedes "Problem:" when the intro
\* is short and the marker is found after position 0
SpliceIntro(response, customized_intro) ==
  LET problem_start == Find(response, "Problem:") - 1
  IN IF WordCount(customized_intro) < IntroWordLimit /\ problem_start > 0
     THEN customized_intro \o <<"\n\n">>
            \o SubSeq(response, problem_start + 1, Len(response))
     ELSE response

present_coding_problem(s, difficulty, topic, context, g, g2) ==
  LET human == <<difficulty, topic>> \o (IF Truthy(context) THEN <<context>> ELSE <<>>)
      Customized(s3) == IF s3.exc THEN s3 ELSE Record(s3, SpliceIntro(g, g2))
      Generated(s2) ==
        IF s2.exc THEN s2
        ELSE IF Truthy(context) /\ ~IsPlaceholder(context)
        THEN Customized(Invoke(s2, "rewrite_intro", <<context, g>>, g2))
        ELSE Record(s2, g)
  IN Generated(Invoke([s EXCEPT !.stage = CODING_PROBLEM], "code_problem", human, g))

\* the evaluation noted without its problem statement
add_evaluation_to_notes_plain(s, evaluation, problem_statement) ==
  [s EXCEPT !.stage = CODE_EVALUATION,
            !.notes = Append(@, Note(CODE_EVALUATION, evaluation))]

add_evaluation_to_notes(s, evaluation, problem_statement) ==
  LET note == Note(CODE_EVALUATION, evaluation)
  IN [s EXCEPT !.stage = CODE_EVALUATION,
               !.notes = Append(@, IF Truthy(problem_statement)
                                   THEN Put(note, "problem_statement", problem_statement)
                                   ELSE note)]

\* the final entry appended without moving the stage
get_interview_notes(s) == s.notes

\* the final entry appended without moving the stage
add_final_evaluation_unstaged(s, evaluation) ==
  [s EXCEPT !.notes = Append(@, Note(FINAL_EVALUATION, evaluation))]

add_final_evaluation(s, evaluation) ==
  [s EXCEPT !.stage = FINAL_EVALUATION,
            !.notes = Append(@, Note(FINAL_EVALUATION, evaluation))]

\* ------------------------------------------------- structured-block scan
\* re.findall(r'(\{[\s\S]*?\})', text): non-overlapping matches, each from
\* a "{" to the first "}" after it
RECURSIVE JsonMatches(_)
JsonMatches(t) ==
  LET From(i) ==
        LET To(j) == IF j = 0 THEN <<>>
                     ELSE <<SubSeq(t, i, j)>> \o JsonMatches(SubSeq(t, j + 1, Len(t)))
        IN IF i = 0 THEN <<>> ELSE To(FindFrom(t, "}", i + 1))
  IN From(Find(t, "{"))

\* the JSON members that occur in generated texts: atom -> <<key, value>>
JsonMembers ==
  [a \in {"\"correctness\": 8", "\"feedback\": \"Good\"", "\"feedback\": \"\"",
          "\"time_complexity\": \"O(n)\"", "\"note\": 1", "\"correctness\": 11",
          "\"overall_rating\": 7", "\"technical_skill\": 8",
          "\"detailed_feedback\": \"Solid\"", "\"detailed_feedback\": \"\"",
          "\"detailed_feedback\": \"W101\""} |->
     CASE a = "\"correctness\": 8" -> [key |-> "correctness", val |-> 8]
       [] a = "\"feedback\": \"Good\"" -> [key |-> "feedback", val |-> <<"Good">>]
       [] a = "\"feedback\": \"\"" -> [key |-> "feedback", val |-> <<>>]
       [] a = "\"time_complexity\": \"O(n)\"" -> [key |-> "time_complexity", val |-> <<"O(n)">>]
       [] a = "\"note\": 1" -> [key |-> "note", val |-> 1]
       [] a = "\"correctness\": 11" -> [key |-> "correctness", val |-> 11]
       [] a = "\"overall_rating\": 7" -> [key |-> "overall_rating", val |-> 7]
       [] a = "\"technical_skill\": 8" -> [key |-> "technical_skill", val |-> 8]
       [] a = "\"detailed_feedback\": \"Solid\"" -> [key |-> "detailed_feedback", val |-> <<"Solid">>]
       [] a = "\"detailed_feedback\": \"\"" -> [key |-> "detailed_feedback", val |-> <<>>]
       [] a = "\"detailed_feedback\": \"W101\"" -> [key |-> "detailed_feedback", val |-> <<"W101">>]]

\* the text between the braces is a JSON object body: members separated
\* by "," (whitespace between tokens is skipped by the JSON scanner)
RECURSIVE DropSpace(_)
DropSpace(t) ==
  IF t = <<>> THEN <<>>
  ELSE IF Head(t) \in {" ", "\n", "\n\n"} THEN DropSpace(Tail(t))
  ELSE <<Head(t)>> \o DropSpace(Tail(t))

IsJsonBody(b) ==
  \/ b = <<>>
  \/ /\ Len(b) % 2 = 1
     /\ \A i \in 1..Len(b) :
          IF i % 2 = 1 THEN b[i] \in DOMAIN JsonMembers ELSE b[i] = ","

RECURSIVE BodyDict(_)
BodyDict(b) ==
  LET Member(m) ==
        Put(BodyDict(SubSeq(b, 1, IF Len(b) = 1 THEN 0 ELSE Len(b) - 2)), m.key, m.val)
  IN IF b = <<>> THEN <<>> ELSE Member(JsonMembers[b[Len(b)]])

\* json.loads on one match: [ok, dict]; ok = FALSE is JSONDecodeError
json_loads(m) ==
  LET Loaded(b) == IF IsJsonBody(b) THEN [ok |-> TRUE, dict |-> BodyDict(b)]
                   ELSE [ok |-> FALSE, dict |-> <<>>]
  IN Loaded(DropSpace(SubSeq(m, 2, Len(m) - 1)))

\* first match that parses and carries one of the expected keys: 0 if none
RECURSIVE FirstAccepted(_, _, _)
FirstAccepted(matches, keys, i) ==
  LET Tried(r) == IF r.ok /\ (DOMAIN r.dict) \cap keys # {} THEN i
                  ELSE FirstAccepted(matches, keys, i + 1)
  IN IF i > Len(matches) THEN 0 ELSE Tried(json_loads(matches[i]))

\* "k" not in d or not d["k"]
Missing(d, k) == k \notin DOMAIN d \/ ~Truthy(d[k])

\* if "k" not in d or not d["k"]: d["k"] = v
Ensure(d, k, v) == IF Missing(d, k) THEN Put(d, k, v) ELSE d

\* ------------------------------------------------- texts read by character
\* The heuristic extractors search the lower-cased text by character
\* position.  Spell gives the characters of the atoms those searches are
\* run on and of the keywords they look for, in lower case; any other atom
\* counts as one character that no keyword contains.
Spell(a) ==
  CASE a = "hire " -> <<"h", "i", "r", "e", " ">>
    [] a = "recommend " -> <<"r", "e", "c", "o", "m", "m", "e", "n", "d", " ">>
    [] a = "not recommend " -> <<"n", "o", "t", " ", "r", "e", "c", "o", "m", "m", "e", "n", "d", " ">>
    [] a = "not hire " -> <<"n", "o", "t", " ", "h", "i", "r", "e", " ">>
    [] a = "unsuitable " -> <<"u", "n", "s", "u", "i", "t", "a", "b", "l", "e", " ">>
    [] a = "fine " -> <<"f", "i", "n", "e", " ">>
    [] a = "confident " -> <<"c", "o", "n", "f", "i", "d", "e", "n", "t", " ">>
    [] a = "not " -> <<"n", "o", "t", " ">>
    [] a = ". " -> <<".", " ">>
    [] a = "correctness: " -> <<"c", "o", "r", "r", "e", "c", "t", "n", "e", "s", "s", ":", " ">>
    [] a = "quality " -> <<"q", "u", "a", "l", "i", "t", "y", " ">>
    [] a = "overall: " -> <<"o", "v", "e", "r", "a", "l", "l", ":", " ">>
    [] a = "8/10 " -> <<"8", "/", "1", "0", " ">>
    [] a = "12/10 " -> <<"1", "2", "/", "1", "0", " ">>
    [] a = "85 " -> <<"8", "5", " ">>
    [] a = "7 out of 10 " -> <<"7", " ", "o", "u", "t", " ", "o", "f", " ", "1", "0", " ">>
    [] a = "110 " -> <<"1", "1", "0", " ">>
    [] a = "correctness" -> <<"c", "o", "r", "r", "e", "c", "t", "n", "e", "s", "s">>
    [] a = "quality" -> <<"q", "u", "a", "l", "i", "t", "y">>
    [] a = "technical" -> <<"t", "e", "c", "h", "n", "i", "c", "a", "l">>
    [] a = "problem" -> <<"p", "r", "o", "b", "l", "e", "m">>
    [] a = "communicat" -> <<"c", "o", "m", "m", "u", "n", "i", "c", "a", "t">>
    [] a = "overall" -> <<"o", "v", "e", "r", "a", "l", "l">>
    [] a = "hire" -> <<"h", "i", "r", "e">>
    [] a = "not recommend" -> <<"n", "o", "t", " ", "r", "e", "c", "o", "m", "m", "e", "n", "d">>
    [] OTHER -> <<a>>

RECURSIVE Chars(_)
Chars(text) == IF text = <<>> THEN <<>> ELSE Spell(Head(text)) \o Chars(Tail(text))

\* the 0-based positions at which the keyword occurs
Occurrences(chars, keyword) ==
  {i \in 0..(Len(chars) - Len(keyword)) : SubSeq(chars, i + 1, i + Len(keyword)) = keyword}

Max(S) == CHOOSE x \in S : \A y \in S : y <= x

\* str.rfind
LastOr(found) == IF found = {} THEN -1 ELSE Max(found)

rfind(chars, keyword) == LastOr(Occurrences(chars, keyword))

Digits == {"0", "1", "2", "3", "4", "5", "6", "7", "8", "9"}
Space == {" ", "\n", "\n\n"}

DigitValue(ch) ==
  CASE ch = "0" -> 0 [] ch = "1" -> 1 [] ch = "2" -> 2 [] ch = "3" -> 3
    [] ch = "4" -> 4 [] ch = "5" -> 5 [] ch = "6" -> 6 [] ch = "7" -> 7
    [] ch = "8" -> 8 [] ch = "9" -> 9

\* int() of a run of digits
RECURSIVE int(_)
int(ds) ==
  IF ds = <<>> THEN 0
  ELSE 10 * int(SubSeq(ds, 1, Len(ds) - 1)) + DigitValue(ds[Len(ds)])

\* how many characters from position i on belong to the class
RECURSIVE Span(_, _, _)
Span(chars, i, class) ==
  IF i > Len(chars) \/ chars[i] \notin class THEN 0
  ELSE 1 + Span(chars, i + 1, class)

\* the word stands at position i
StartsAt(chars, i, word) ==
  i + Len(word) - 1 <= Len(chars) /\ SubSeq(chars, i, i + Len(word) - 1) = word

Min(S) == CHOOSE x \in S : \A y \in S : x <= y

\* None where a score is expected: no text spells it
NoScore == 0 - 1

\* re.split(r'[.!?]', text)
RECURSIVE Sentences(_)
SplitAt(chars, stops) ==
  IF stops = {} THEN <<chars>>
  ELSE <<SubSeq(chars, 1, Min(stops) - 1)>>
         \o Sentences(SubSeq(chars, Min(stops) + 1, Len(chars)))

Sentences(chars) == SplitAt(chars, {i \in 1..Len(chars) : chars[i] \in {".", "!", "?"}})

\* --------------------------------------------------------- EvaluatorAgent
\* _extract_score: the three patterns are tried in turn, each over the whole
\* text, and the first match of the first pattern that matches is converted.
\* A match starts at an occurrence p of the score type; (\d+) is greedy and
\* gives digits back until the rest of the pattern fits.

\* [/\s]*10 after k of the run's digits
FitsTen(chars, first, run, k) ==
  IF k = run
  THEN StartsAt(chars, first + run + Span(chars, first + run, {"/"} \cup Space),
                <<"1", "0">>)
  ELSE StartsAt(chars, first + k, <<"1", "0">>)

\* [\s]*out of[\s]*10 after the run
FitsOutOf(chars, rest) ==
  /\ StartsAt(chars, rest + Span(chars, rest, Space), <<"o", "u", "t", " ", "o", "f">>)
  /\ StartsAt(chars,
              rest + Span(chars, rest, Space) + 6
                + Span(chars, rest + Span(chars, rest, Space) + 6, Space),
              <<"1", "0">>)

\* what follows the occurrence p of the score type: the separators, then
\* the run of digits
ScoreRun(chars, p, gap, first, run) ==
  [p |-> p, gap |-> gap, first |-> first, run |-> run,
   taken |-> {k \in 1..run : FitsTen(chars, first, run, k)},
   out_of |-> FitsOutOf(chars, first + run)]

ScoreGap(chars, p, after, gap) ==
  ScoreRun(chars, p, gap, after + gap, Span(chars, after + gap, Digits))

ScoreMatch(chars, type, p) ==
  ScoreGap(chars, p, p + Len(type) + 1,
           Span(chars, p + Len(type) + 1, {":"} \cup Space))

Group(chars, m, k) == int(SubSeq(chars, m.first, m.first + k - 1))

Earliest(ms) == CHOOSE m \in ms : \A n \in ms : m.p <= n.p

FirstPattern(chars, ms) ==
  IF \E m \in ms : m.gap >= 1 /\ m.taken # {}
  THEN Group(chars, Earliest({m \in ms : m.gap >= 1 /\ m.taken # {}}),
             Max(Earliest({m \in ms : m.gap >= 1 /\ m.taken # {}}).taken))
  ELSE IF \E m \in ms : m.gap >= 1 /\ m.run >= 1 /\ m.out_of
  THEN Group(chars, Earliest({m \in ms : m.gap >= 1 /\ m.run >= 1 /\ m.out_of}),
             Earliest({m \in ms : m.gap >= 1 /\ m.run >= 1 /\ m.out_of}).run)
  ELSE IF \E m \in ms : m.run >= 1
  THEN Group(chars, Earliest({m \in ms : m.run >= 1}),
             Earliest({m \in ms : m.run >= 1}).run)
  ELSE NoScore

extract_score(chars, type) ==
  FirstPattern(chars, {ScoreMatch(chars, type, p) : p \in Occurrences(chars, type)})

\* The record built when no structured block is accepted.  Its feedback is
\* the raw text and its scores are read from that text; the complexity and
\* suggestion fields are left out of the record here.
EvaluationRecord(evaluation_text, score) ==
  [correctness |-> score["correctness"], code_quality |-> score["quality"],
   feedback |-> evaluation_text]

EvaluationScores(chars) ==
  [score_type \in {"correctness", "quality"} |-> extract_score(chars, Spell(score_type))]

HeuristicEvaluation(evaluation_text) ==
  EvaluationRecord(evaluation_text, EvaluationScores(Chars(evaluation_text)))

ParseEvaluation(evaluation_text) ==
  LET Accepted(matches, i) ==
        IF i > 0
        THEN Ensure(json_loads(matches[i]).dict, "feedback", evaluation_text)
        ELSE Ensure(HeuristicEvaluation(evaluation_text), "feedback", evaluation_text)
      Scan(matches) ==
        Accepted(matches,
                 FirstAccepted(matches, {"correctness", "feedback", "time_complexity"}, 1))
  IN Scan(JsonMatches(evaluation_text))

\* evaluate_code catching the failure of its chain and answering with the
\* record of an empty text
code_evaluator_evaluate_code_swallowing(s, code, problem_statement, language, g) ==
  LET lang == IF Truthy(language) THEN language ELSE <<"Not specified">>
      Returned(s1) ==
        IF s1.exc THEN [s1 EXCEPT !.exc = FALSE, !.rec = ParseEvaluation(<<>>)]
        ELSE [s1 EXCEPT !.rec = ParseEvaluation(g)]
  IN Returned(Invoke(s, "code_evaluation", <<code, problem_statement, lang>>, g))

\* EvaluatorAgent.evaluate_code: the chain is run, then its text parsed
code_evaluator_evaluate_code(s, code, problem_statement, language, g) ==
  LET lang == IF Truthy(language) THEN language ELSE <<"Not specified">>
      Returned(s1) == IF s1.exc THEN s1 ELSE [s1 EXCEPT !.rec = ParseEvaluation(g)]
  IN Returned(Invoke(s, "code_evaluation", <<code, problem_statement, lang>>, g))

\* ---------------------------------------------------- FinalEvaluatorAgent
KEYERROR == <<"<KeyError 'human'>">>

DegradedEvaluation ==
  [detailed_feedback |->
     <<"Unable to generate a complete evaluation due to a technical issue. The system encountered the following error: ",
       "<error>">>,
   technical_skill |-> DegradedScore,
   problem_solving |-> DegradedScore,
   communication |-> DegradedScore,
   overall_rating |-> DegradedScore,
   strengths |-> <<"Could not analyze strengths due to system error">>,
   areas_for_improvement |-> <<"Could not analyze areas for improvement due to system error">>,
   recommendation |-> [decision |-> "undecided", confidence |-> "low"]]

hire_keywords ==
  <<<<"h", "i", "r", "e">>,
    <<"r", "e", "c", "o", "m", "m", "e", "n", "d">>,
    <<"s", "u", "i", "t", "a", "b", "l", "e">>,
    <<"q", "u", "a", "l", "i", "f", "i", "e", "d">>>>
no_hire_keywords ==
  <<<<"n", "o", "t", " ", "h", "i", "r", "e">>,
    <<"d", "o", " ", "n", "o", "t", " ", "h", "i", "r", "e">>,
    <<"n", "o", "t", " ", "r", "e", "c", "o", "m", "m", "e", "n", "d">>,
    <<"u", "n", "s", "u", "i", "t", "a", "b", "l", "e">>,
    <<"n", "o", "t", " ", "q", "u", "a", "l", "i", "f", "i", "e", "d">>>>
confidence_keywords ==
  <<<<"c", "o", "n", "f", "i", "d", "e", "n", "t">>,
    <<"c", "o", "n", "f", "i", "d", "e", "n", "c", "e">>,
    <<"s", "t", "r", "o", "n", "g", "l", "y">>,
    <<"h", "e", "s", "i", "t", "a", "n", "t">>,
    <<"u", "n", "c", "e", "r", "t", "a", "i", "n">>>>
negations ==
  {<<"n", "o", "t", " ">>, <<"l", "o", "w", " ">>, <<"h", "e", "s", "i", "t", "a", "n", "t">>, <<"u", "n", "c", "e", "r", "t", "a", "i", "n">>}

\* the keywords of the list that the text contains
PresentKeywords(chars, keywords) ==
  {keywords[i] : i \in {j \in 1..Len(keywords) : Occurrences(chars, keywords[j]) # {}}}

LastOf(chars, found) == Max({rfind(chars, kw) : kw \in found})

\* with signals of both kinds the greatest rfind offset of a no-hire
\* keyword is compared with the greatest rfind offset of a hire keyword
Decision(chars, hire, no_hire) ==
  IF hire # {} /\ no_hire # {}
  THEN (IF LastOf(chars, no_hire) > LastOf(chars, hire) THEN "no_hire" ELSE "hire")
  ELSE IF hire # {} THEN "hire"
  ELSE IF no_hire # {} THEN "no_hire"
  ELSE "<None>"

\* the decision of _extract_recommendation
extract_decision(chars) ==
  Decision(chars, PresentKeywords(chars, hire_keywords),
           PresentKeywords(chars, no_hire_keywords))

ConfidenceLevel(sentence) ==
  IF \E neg \in negations : Occurrences(sentence, neg) # {} THEN "low" ELSE "high"

FirstSentence(sentences, keyword) ==
  sentences[CHOOSE i \in 1..Len(sentences) :
              /\ Occurrences(sentences[i], keyword) # {}
              /\ \A j \in 1..(i - 1) : Occurrences(sentences[j], keyword) = {}]

Confidence(chars, found) ==
  IF found = {} THEN "medium"
  ELSE ConfidenceLevel(FirstSentence(Sentences(chars), confidence_keywords[Max(found)]))

\* the confidence of _extract_recommendation: every keyword found sets the
\* level from the first sentence holding it, so the last keyword of the
\* list that is found decides
extract_confidence(chars) ==
  Confidence(chars, {j \in 1..Len(confidence_keywords) :
                       Occurrences(chars, confidence_keywords[j]) # {}})

extract_recommendation(chars) ==
  [decision |-> extract_decision(chars), confidence |-> extract_confidence(chars)]

ScoreValue(sub_text, start) ==
  int(SubSeq(sub_text, start, start + Span(sub_text, start, Digits) - 1))

FirstScore(sub_text, starts) ==
  IF starts = {} THEN NoScore ELSE ScoreValue(sub_text, Min(starts))

\* (\d+)(?:/10| out of 10) searched in the window
ScoreIn(sub_text) ==
  FirstScore(sub_text,
             {i \in 1..Len(sub_text) :
                /\ sub_text[i] \in Digits
                /\ \/ StartsAt(sub_text, i + Span(sub_text, i, Digits), <<"/", "1", "0">>)
                   \/ StartsAt(sub_text, i + Span(sub_text, i, Digits),
                               <<" ", "o", "u", "t", " ", "o", "f", " ", "1", "0">>)})

ScoreNear(lower_text, found) ==
  IF found = {} THEN NoScore
  ELSE ScoreIn(SubSeq(lower_text, Min(found) + 1,
                      IF Min(found) + WindowChars < Len(lower_text)
                      THEN Min(found) + WindowChars ELSE Len(lower_text)))

\* FinalEvaluatorAgent._extract_score: the first run of digits followed by
\* "/10" or " out of 10" within WindowChars characters of the metric
final_extract_score(lower_text, metric) ==
  ScoreNear(lower_text, Occurrences(lower_text, metric))

FinalScores(chars) ==
  [metric \in {"technical", "problem", "communicat", "overall"} |->
     final_extract_score(chars, Spell(metric))]

FinalRecord(evaluation_text, score, recommendation) ==
  [technical_skill |-> score["technical"],
   problem_solving |-> score["problem"],
   communication |-> score["communicat"],
   overall_rating |-> score["overall"],
   recommendation |-> recommendation,
   detailed_feedback |-> evaluation_text]

\* The record built when no structured block is accepted; the strengths
\* and areas_for_improvement lists are left out of the record here.
HeuristicFinalEvaluation(evaluation_text) ==
  FinalRecord(evaluation_text, FinalScores(Chars(evaluation_text)),
              extract_recommendation(Chars(evaluation_text)))

Placeholder == <<"No detailed feedback could be generated for this interview.">>

\* the final parse falling back to the raw text only
ParseFinalEvaluation_rawonly(evaluation_text) ==
  LET Accepted(matches, i) ==
        IF i > 0
        THEN Ensure(json_loads(matches[i]).dict, "detailed_feedback", evaluation_text)
        ELSE Ensure(HeuristicFinalEvaluation(evaluation_text), "detailed_feedback",
                    evaluation_text)
      Scan(matches) ==
        Accepted(matches,
                 FirstAccepted(matches, {"technical_skill", "overall_rating", "recommendation"}, 1))
  IN Scan(JsonMatches(evaluation_text))

ParseFinalEvaluation(evaluation_text) ==
  LET Accepted(matches, i) ==
        IF i > 0
        THEN Ensure(json_loads(matches[i]).dict, "detailed_feedback", evaluation_text)
        ELSE Ensure(HeuristicFinalEvaluation(evaluation_text), "detailed_feedback",
                    Placeholder)
      Scan(matches) ==
        Accepted(matches,
                 FirstAccepted(matches, {"technical_skill", "overall_rating", "recommendation"}, 1))
  IN Scan(JsonMatches(evaluation_text))

\* json.dumps(interview_notes): every note flattened to its members
RECURSIVE DumpNotes(_)
DumpNotes(notes) ==
  IF notes = <<>> THEN <<>>
  ELSE <<"{", notes[1].stage>> \o notes[1].content
         \o (IF "problem_statement" \in DOMAIN notes[1]
             THEN <<"|">> \o notes[1].problem_statement ELSE <<>>)
         \o <<"}">> \o DumpNotes(Tail(notes))

\* evaluate_interview letting the error of the chain run propagate
evaluate_interview_propagating(s, interview_notes, g, g_retry) ==
  LET Parsed(s2, text) ==
        IF text \in {FAIL, KEYERROR} THEN [s2 EXCEPT !.exc = TRUE]
        ELSE [s2 EXCEPT !.rec = ParseFinalEvaluation(text)]
      Run(dumped) ==
        IF g = KEYERROR
        THEN Parsed(Invoke(Invoke(s, "final_evaluation", <<dumped>>, g),
                           "final_evaluation", <<dumped>>, g_retry), g_retry)
        ELSE Parsed(Invoke(s, "final_evaluation", <<dumped>>, g), g)
  IN Run(DumpNotes(interview_notes))

\* FinalEvaluatorAgent.evaluate_interview: never raises.  g is the outcome
\* of the chain run, g_retry of the second run made after a KeyError on
\* the memory key.
evaluate_interview(s, interview_notes, g, g_retry) ==
  LET Parsed(s2, text) ==
        [s2 EXCEPT !.exc = FALSE,
                   !.rec = IF text \in {FAIL, KEYERROR} THEN DegradedEvaluation
                           ELSE ParseFinalEvaluation(text)]
      Run(dumped) ==
        IF g = KEYERROR
        THEN Parsed(Invoke(Invoke(s, "final_evaluation", <<dumped>>, g),
                           "final_evaluation", <<dumped>>, g_retry), g_retry)
        ELSE Parsed(Invoke(s, "final_evaluation", <<dumped>>, g), g)
  IN Run(DumpNotes(interview_notes))

\* ------------------------------------------------------- CoordinatorAgent
\* `pattern in text` for the substrings the coordinator looks for.  The
\* atoms of a candidate response are cut so that a pattern never spans two
\* atoms; AtomSubstrings lists the patterns lying inside one atom.
AtomSubstrings(a) ==
  CASE a = "function " -> {"function ", "function"}
    [] a = "class " -> {"class ", "class"}
    [] a = "public class" -> {"public class", "public", "class"}
    [] a = "import React" -> {"import React", "import "}
    [] a = "def f():" -> {"def f():", "def ", ":"}
    [] a = "function f() {" -> {"function f() {", "function ", "function", "{"}
    [] OTHER -> {a}

In(pattern, text) == \E i \in 1..Len(text) : pattern \in AtomSubstrings(text[i])

\* "<fence>" is the atom of a triple-backtick code fence
code_indicators ==
  {"<fence>", "def ", "function ", "class ", "import ", "from ", "#include",
   "public class", "int ", "const ", "let ", "var ", "for(", "for (",
   "while(", "if(", "else{", "return "}

\* only a fenced block counts as code
looks_like_code_fenced(text) == In("<fence>", text)

looks_like_code(text) == \E indicator \in code_indicators : In(indicator, text)

\* the checks of _detect_language tried from the last to the first
detect_language_reversed(code) ==
  IF In("import React", code) \/ In("export", code) THEN <<"typescript">>
  ELSE IF In("#include", code) THEN <<"cpp">>
  ELSE IF In("class", code) /\ In("public", code) THEN <<"java">>
  ELSE IF In("function", code) /\ In("{", code) THEN <<"javascript">>
  ELSE IF In("def ", code) /\ In(":", code) THEN <<"python">>
  ELSE <<"unknown">>

detect_language(code) ==
  IF In("def ", code) /\ In(":", code) THEN <<"python">>
  ELSE IF In("function", code) /\ In("{", code) THEN <<"javascript">>
  ELSE IF In("class", code) /\ In("public", code) THEN <<"java">>
  ELSE IF In("#include", code) THEN <<"cpp">>
  ELSE IF In("import React", code) \/ In("export", code) THEN <<"typescript">>
  ELSE <<"unknown">>

default_topics ==
  << <<"algorithms">>, <<"data structures">>, <<"system design">>, <<"concurrency">> >>

Contents(notes) == [i \in 1..Len(notes) |-> notes[i].content]

StripAll(ts) == [i \in 1..Len(ts) |-> Strip(ts[i])]

\* topic derivation answering a failing generation call with no topics
derive_topics_from_responses_bare(s, interview_notes, response, g) ==
  LET conversation == JoinLines(Contents(interview_notes))
                        \o (IF Truthy(response) THEN <<"\n">> \o response ELSE <<>>)
      Predicted(s1) ==
        IF g = FAIL
        THEN [s |-> [s1 EXCEPT !.exc = FALSE], topics |-> <<>>]
        ELSE [s |-> s1, topics |-> StripAll(SplitComma(g))]
  IN IF Len(interview_notes) > 0
     THEN Predicted(Invoke(s, "topics", <<conversation>>, g))
     ELSE [s |-> s, topics |-> default_topics]

\* returns the coordinator and the topic list; a failing generation call
\* is caught and answered with the defaults
derive_topics_from_responses(s, interview_notes, response, g) ==
  LET conversation == JoinLines(Contents(interview_notes))
                        \o (IF Truthy(response) THEN <<"\n">> \o response ELSE <<>>)
      Predicted(s1) ==
        IF g = FAIL
        THEN [s |-> [s1 EXCEPT !.exc = FALSE], topics |-> default_topics]
        ELSE [s |-> s1, topics |-> StripAll(SplitComma(g)) \o default_topics]
  IN IF Len(interview_notes) > 0
     THEN Predicted(Invoke(s, "topics", <<conversation>>, g))
     ELSE [s |-> s, topics |-> default_topics]

get_current_problem(interview_notes) ==
  LET Latest(hits) ==
        IF hits = {} THEN <<>>
        ELSE interview_notes[CHOOSE i \in hits : \A j \in hits : j <= i].content
  IN Latest({i \in 1..Len(interview_notes) : interview_notes[i].stage = CODING_PROBLEM})

extract_background_from_response(s, response, g) ==
  Invoke(s, "summary", <<response>>, g)

extract_technical_context(s, interview_notes, response, g) ==
  LET Recent(n) == IF n >= RecentExchanges
                   THEN SubSeq(interview_notes, n - RecentExchanges + 1, n)
                   ELSE interview_notes
      recent_exchanges == Recent(Len(interview_notes))
      context == JoinLines(Contents(recent_exchanges)) \o <<"\n">> \o response
  IN Invoke(s, "context", <<context>>, g)

update_context_from_response(s, current_stage, response) ==
  IF current_stage = INTRODUCTION
  THEN [s EXCEPT !.ctx.background = response] ELSE s

get_final_evaluation(s, g, g_retry) ==
  LET Evaluated(s1) == add_final_evaluation(s1, Get(s1.rec, "detailed_feedback", <<>>))
  IN Evaluated(evaluate_interview(s, s.notes, g, g_retry))

\* the closing message returned without the evaluation being produced
transition_to_final_evaluation_unevaluated(s, G) ==
  LET Closed(s1) == IF s1.exc THEN s1 ELSE [s1 EXCEPT !.ret = G.closing]
  IN Closed(Invoke(s, "closing", <<>>, G.closing))

transition_to_final_evaluation(s, G) ==
  LET Highlighted(s3) ==
        IF s3.exc THEN s3
        ELSE [s3 EXCEPT !.ret = G.closing \o <<"\n\n">> \o G.highlights]
      Concluded(s2, detailed_feedback) ==
        IF WordCount(detailed_feedback) > HighlightWordLimit
        THEN Highlighted(Invoke(s2, "highlights", <<detailed_feedback>>, G.highlights))
        ELSE [s2 EXCEPT !.ret = G.closing \o <<"\n\n">> \o detailed_feedback]
      Evaluated(s2) == Concluded(s2, Get(s2.rec, "detailed_feedback", <<>>))
      Closed(s1) ==
        IF s1.exc THEN s1
        ELSE Evaluated(get_final_evaluation(s1, G.final, G.final_retry))
  IN Closed(Invoke(s, "closing", <<>>, G.closing))

\* the INTRODUCTION step keeping the raw response as the background
process_introduction_raw(s, response, G) ==
  LET Summarised(s1, background) ==
        IF s1.exc THEN s1
        ELSE ask_technical_questions([s1 EXCEPT !.ctx.background = background],
                                     background,
                                     Get(s1.ctx, "role", <<"Software Engineer">>),
                                     Get(s1.ctx, "difficulty", <<"medium">>),
                                     G.questions)
  IN Summarised(extract_background_from_response([s EXCEPT !.branch = "introduction"],
                                                 response, G.summary),
                response)

\* CoordinatorAgent.process_response, stage INTRODUCTION
process_introduction(s, response, G) ==
  LET Summarised(s1, background) ==
        IF s1.exc THEN s1
        ELSE ask_technical_questions([s1 EXCEPT !.ctx.background = background],
                                     background,
                                     Get(s1.ctx, "role", <<"Software Engineer">>),
                                     Get(s1.ctx, "difficulty", <<"medium">>),
                                     G.questions)
  IN Summarised(extract_background_from_response([s EXCEPT !.branch = "introduction"],
                                                 response, G.summary),
                G.summary)

\* the TECHNICAL_QUESTIONS step extracting the context before the topics
process_technical_questions_reordered(s, response, G) ==
  LET Derived(s2, topics, technical_context) ==
        present_coding_problem(s2, Get(s2.ctx, "difficulty", <<"medium">>),
                               IF Len(topics) > 0 THEN topics[1] ELSE <<"algorithms">>,
                               technical_context, G.problem, G.rewrite)
      Topics(d) == Derived(d.s, d.topics, G.context)
      Extracted(s1) ==
        IF s1.exc THEN s1
        ELSE Topics(derive_topics_from_responses(s1, s.notes, response, G.topics))
  IN Extracted(extract_technical_context([s EXCEPT !.branch = "technical"],
                                         s.notes, response, G.context))

\* CoordinatorAgent.process_response, stage TECHNICAL_QUESTIONS
process_technical_questions(s, response, G) ==
  LET Extracted(s1, topics, technical_context) ==
        IF s1.exc THEN s1
        ELSE present_coding_problem(s1, Get(s1.ctx, "difficulty", <<"medium">>),
                                    IF Len(topics) > 0 THEN topics[1] ELSE <<"algorithms">>,
                                    technical_context, G.problem, G.rewrite)
      Derived(d) ==
        Extracted(extract_technical_context(d.s, s.notes, response, G.context),
                  d.topics, G.context)
  IN Derived(derive_topics_from_responses([s EXCEPT !.branch = "technical"],
                                          s.notes, response, G.topics))

\* the code branch returning the raw generated text of the evaluator
process_code_submission_rawtext(s, response, G) ==
  LET Evaluated(s3, current_problem, evaluation_text) ==
        IF s3.exc THEN s3
        ELSE [add_evaluation_to_notes(
                [s3 EXCEPT !.ctx.code_submissions =
                   Append(@, [problem |-> current_problem, code |-> response,
                              evaluation |-> s3.rec])],
                evaluation_text, current_problem)
              EXCEPT !.ret = G.eval]
      Returned(s3, current_problem) ==
        Evaluated(s3, current_problem, Get(s3.rec, "feedback", <<>>))
      Stored(s2, current_problem) ==
        Returned(code_evaluator_evaluate_code(s2, response, current_problem,
                                              detect_language(response), G.eval),
                 current_problem)
      Found(s1, problem_statement) ==
        IF Truthy(problem_statement)
        THEN Stored([s1 EXCEPT !.ctx.current_problem = problem_statement],
                    problem_statement)
        ELSE Stored(s1, Get(s1.ctx, "current_problem", <<>>))
  IN Found([s EXCEPT !.ctx = Put(@, "current_code", response), !.branch = "code"],
           get_current_problem(s.notes))

\* CoordinatorAgent.process_response, stage CODING_PROBLEM, code-like response
process_code_submission(s, response, G) ==
  LET Evaluated(s3, current_problem, evaluation_text) ==
        IF s3.exc THEN s3
        ELSE [add_evaluation_to_notes(
                [s3 EXCEPT !.ctx.code_submissions =
                   Append(@, [problem |-> current_problem, code |-> response,
                              evaluation |-> s3.rec])],
                evaluation_text, current_problem)
              EXCEPT !.ret = evaluation_text]
      Returned(s3, current_problem) ==
        Evaluated(s3, current_problem, Get(s3.rec, "feedback", <<>>))
      Stored(s2, current_problem) ==
        Returned(code_evaluator_evaluate_code(s2, response, current_problem,
                                              detect_language(response), G.eval),
                 current_problem)
      Found(s1, problem_statement) ==
        IF Truthy(problem_statement)
        THEN Stored([s1 EXCEPT !.ctx.current_problem = problem_statement],
                    problem_statement)
        ELSE Stored(s1, Get(s1.ctx, "current_problem", <<>>))
  IN Found([s EXCEPT !.ctx = Put(@, "current_code", response), !.branch = "code"],
           get_current_problem(s.notes))

\* the no-code branch keeping the response as the current code
process_non_code_stored(s, response, G) ==
  LET Returned(s1) == IF s1.exc THEN s1 ELSE [s1 EXCEPT !.ret = G.help]
  IN Returned(Invoke([s EXCEPT !.branch = "help",
                               !.ctx = Put(@, "current_code", response)],
                     "help", <<response>>, G.help))

\* CoordinatorAgent.process_response, stage CODING_PROBLEM, no code yet
process_non_code(s, response, G) ==
  LET Returned(s1) == IF s1.exc THEN s1 ELSE [s1 EXCEPT !.ret = G.help]
  IN Returned(Invoke([s EXCEPT !.branch = "help"], "help", <<response>>, G.help))

\* the CODE_EVALUATION step asking for two submissions before it finishes
process_code_evaluation_two(s, response, G) ==
  LET Presented(s2) ==
        IF s2.exc THEN s2
        ELSE [s2 EXCEPT !.ret = G.transition \o <<"\n\n">> \o s2.ret]
      Announced(s1, topic) ==
        IF s1.exc THEN s1
        ELSE Presented(present_coding_problem(s1, Get(s1.ctx, "difficulty", <<"medium">>),
                                              topic, NONE, G.problem, G.rewrite))
      Derived(d) ==
        IF Len(d.topics) > 1
        THEN Announced(Invoke(d.s, "transition", <<d.topics[2]>>, G.transition),
                       d.topics[2])
        ELSE transition_to_final_evaluation([d.s EXCEPT !.branch = "final"], G)
  IN IF Len(Get(s.ctx, "code_submissions", <<>>)) < 2
     THEN Derived(derive_topics_from_responses([s EXCEPT !.branch = "second_problem"],
                                               s.notes, <<>>, G.topics))
     ELSE transition_to_final_evaluation([s EXCEPT !.branch = "final"], G)

\* CoordinatorAgent.process_response, stage CODE_EVALUATION
process_code_evaluation(s, response, G) ==
  LET Presented(s2) ==
        IF s2.exc THEN s2
        ELSE [s2 EXCEPT !.ret = G.transition \o <<"\n\n">> \o s2.ret]
      Announced(s1, topic) ==
        IF s1.exc THEN s1
        ELSE Presented(present_coding_problem(s1, Get(s1.ctx, "difficulty", <<"medium">>),
                                              topic, NONE, G.problem, G.rewrite))
      Derived(d) ==
        IF Len(d.topics) > 1
        THEN Announced(Invoke(d.s, "transition", <<d.topics[2]>>, G.transition),
                       d.topics[2])
        ELSE transition_to_final_evaluation([d.s EXCEPT !.branch = "final"], G)
  IN IF Len(Get(s.ctx, "code_submissions", <<>>)) < 1
     THEN Derived(derive_topics_from_responses([s EXCEPT !.branch = "second_problem"],
                                               s.notes, <<>>, G.topics))
     ELSE transition_to_final_evaluation([s EXCEPT !.branch = "final"], G)

\* pass-through of the raw response (FINAL_EVALUATION and unhandled stages)
process_pass_through(s, response, G) ==
  LET Returned(s1) == IF s1.exc THEN s1 ELSE [s1 EXCEPT !.ret = G.echo]
  IN Returned(Invoke([s EXCEPT !.branch = "echo"], "echo", <<response>>, G.echo))

process_response(s, current_stage, response, G) ==
  LET Route(s0) ==
        CASE current_stage = INTRODUCTION -> process_introduction(s0, response, G)
          [] current_stage = TECHNICAL_QUESTIONS ->
               process_technical_questions(s0, response, G)
          [] current_stage = CODING_PROBLEM ->
               IF looks_like_code(response)
               THEN process_code_submission(s0, response, G)
               ELSE process_non_code(s0, response, G)
          [] current_stage = CODE_EVALUATION -> process_code_evaluation(s0, response, G)
          [] OTHER -> process_pass_through(s0, response, G)
  IN Route(update_context_from_response(s, current_stage, response))

\* the direct entry point recording the evaluation without the submission
evaluate_code_unstored(s, code, problem_statement, language, g) ==
  LET Evaluated(s1) ==
        IF s1.exc THEN s1
        ELSE add_evaluation_to_notes(s1, Get(s1.rec, "feedback", <<>>), problem_statement)
  IN Evaluated(code_evaluator_evaluate_code(s, code, problem_statement, language, g))

\* CoordinatorAgent.evaluate_code: the direct code-submission entry point
evaluate_code(s, code, problem_statement, language, g) ==
  LET Evaluated(s1) ==
        IF s1.exc THEN s1
        ELSE add_evaluation_to_notes(
               [s1 EXCEPT !.ctx.code_submissions =
                  Append(@, [problem |-> problem_statement, code |-> code,
                             language |-> language, evaluation |-> s1.rec])],
               Get(s1.rec, "feedback", <<>>), problem_statement)
  IN Evaluated(code_evaluator_evaluate_code(s, code, problem_statement, language, g))

\* InterviewerAgent.handle_candidate_response: the response is noted under
\* the current stage, then the coordinator routes on that stage
handle_candidate_response(s, response, G) ==
  process_response([s EXCEPT !.notes = Append(@, Note(s.stage, <<"Candidate: ">> \o response))],
                   s.stage, response, G)

\* ----------------------------------------------------- generation outcomes
IntroOutcomes == {<<"Welcome">>, FAIL}
SummaryOutcomes == {<<"summary">>, FAIL}
QuestionOutcomes == {<<"Q1?">>, FAIL}
TopicOutcomes == {<<"graphs", ",", " ", "hashing">>, FAIL}
ContextOutcomes ==
  {<<"hash maps">>, <<"I could not extract", " ", "topics">>, FAIL}
ProblemOutcomes ==
  {<<"Let's code.", "\n\n", "Problem:", " ", "Two Sum">>, <<"Two Sum">>, FAIL}
RewriteOutcomes == {<<"W49">>, <<"W50">>, FAIL}
EvalOutcomes ==
  {<<"{", "\"correctness\": 8", ",", "\"feedback\": \"Good\"", "}">>,
   <<"Nice.", " ", "{", "\"correctness\": 8", "}">>,
   <<>>, FAIL}
FinalOutcomes ==
  {<<"{", "\"overall_rating\": 7", ",", "\"detailed_feedback\": \"Solid\"", "}">>,
   <<"{", "\"overall_rating\": 7", "}">>,
   <<"Strong candidate">>, <<"W101">>, <<>>, FAIL, KEYERROR}
FinalRetryOutcomes == {<<"Strong candidate">>, FAIL}
ClosingOutcomes == {<<"Thanks">>, FAIL}
HighlightOutcomes == {<<"Highlights">>, FAIL}
HelpOutcomes == {<<"Hint">>, FAIL}
EchoOutcomes == {<<"Echo">>, FAIL}
TransitionOutcomes == {<<"Next">>}

\* the outcomes of the generation calls one request can make
GBase ==
  [summary |-> <<"summary">>, questions |-> <<"Q1?">>,
   topics |-> <<"graphs", ",", " ", "hashing">>, context |-> <<"hash maps">>,
   problem |-> <<"Two Sum">>, rewrite |-> <<"W49">>, eval |-> <<>>,
   help |-> <<"Hint">>, transition |-> <<"Next">>, closing |-> <<"Thanks">>,
   final |-> <<"Strong candidate">>, final_retry |-> <<"Strong candidate">>,
   highlights |-> <<"Highlights">>, echo |-> <<"Echo">>]

\* some generation call of the request is set to raise
HasFail(G) == \E k \in DOMAIN G : G[k] \in {FAIL, KEYERROR}

\* Outcomes are drawn for the calls a request can reach: a call that
\* follows a raising one, or whose condition is not met, is never issued.
GChoices(stage) ==
  CASE stage = INTRODUCTION ->
         {[GBase EXCEPT !.summary = x[1], !.questions = x[2]] :
            x \in SummaryOutcomes \X QuestionOutcomes}
    [] stage = TECHNICAL_QUESTIONS ->
         {[GBase EXCEPT !.topics = x[1], !.context = x[2], !.problem = x[3],
                        !.rewrite = x[4]] :
            x \in {y \in TopicOutcomes \X ContextOutcomes \X ProblemOutcomes \X RewriteOutcomes :
                     /\ y[2] = FAIL => (y[1] = GBase.topics /\ y[3] = GBase.problem)
                     /\ (y[2] # <<"hash maps">> \/ y[3] = FAIL) => y[4] = GBase.rewrite}}
    [] stage = CODING_PROBLEM ->
         {[GBase EXCEPT !.eval = x] : x \in EvalOutcomes}
           \cup {[GBase EXCEPT !.help = x] : x \in HelpOutcomes}
    [] stage = CODE_EVALUATION ->
         {[GBase EXCEPT !.closing = x[1], !.final = x[2], !.final_retry = x[3],
                        !.highlights = x[4]] :
            x \in {y \in ClosingOutcomes \X FinalOutcomes \X FinalRetryOutcomes \X HighlightOutcomes :
                     /\ y[1] = FAIL => y[2] = GBase.final
                     /\ y[2] # KEYERROR => y[3] = GBase.final_retry
                     /\ y[2] # <<"W101">> => y[4] = GBase.highlights}}
    [] OTHER -> {[GBase EXCEPT !.echo = x] : x \in EchoOutcomes}

\* ------------------------------------------------------------ request inputs
Names == {<<"Ada">>}
Roles == {<<"backend_developer">>}
Difficulties == {<<"hard">>}
Responses ==
  {<<"I like graphs">>,
   <<"def ", "solve(arr)", ":", " ", "return ", "sorted(arr)">>}

\* what a candidate sends at a stage: code only once a problem is posed
ResponsesAt(stage) ==
  IF stage = CODING_PROBLEM THEN Responses ELSE {<<"I like graphs">>}
Codes == {<<"def ", "solve(arr)", ":", " ", "return ", "sorted(arr)">>}
Problems == {<<"Two Sum">>}
Languages == {<<"python">>}

\* ------------------------------------------------------------------- state
VARIABLES
  coordinators,      \* session_manager.coordinators has the session's id
  last_activity,     \* session_manager.last_activity has the session's id
  started,           \* the session has been created
  failures,          \* requests of the session in which a generation call raised
  current_stage,     \* coordinator.interviewer.current_stage
  interview_notes,   \* coordinator.interviewer.interview_notes
  interview_context, \* coordinator.interview_context
  session_stage,     \* InterviewSession.current_stage (persisted)
  op,                \* the last request: what it was given and what it did
  requests,          \* the respond requests in flight in the worker threads
  sessions,          \* per session id: its row, its coordinator, its activity
  released,          \* the coordinator objects the session manager has dropped
  idle,              \* the session ids whose last activity is older than the threshold
  sweep,             \* the periodic sweep: where it is and its sessions_to_cleanup
  serving            \* per worker thread: the session and coordinator it has obtained

vars ==
  <<coordinators, last_activity, started, failures, current_stage, interview_notes,
    interview_context, session_stage, op, requests, sessions, released, idle, sweep, serving>>

\* CoordinatorAgent.__init__ / InterviewerAgent.__init__
InitialContext ==
  [candidate_name |-> NONE, role |-> NONE, difficulty |-> <<"medium">>,
   background |-> NONE, current_problem |-> NONE, code_submissions |-> <<>>]

NewCoordinator ==
  [stage |-> INTRODUCTION, notes |-> <<>>, ctx |-> InitialContext]

\* the session's coordinator object (a new one when none is registered)
Coordinator ==
  IF coordinators
  THEN [stage |-> current_stage, notes |-> interview_notes, ctx |-> interview_context]
  ELSE NewCoordinator

\* a call starting on coordinator c
Begin(c) ==
  [stage |-> c.stage, notes |-> c.notes, ctx |-> c.ctx, calls |-> <<>>,
   ret |-> NONE, rec |-> NoRec, exc |-> FALSE, branch |-> "-"]

\* a call log without the arguments
Kinds(calls) == [i \in 1..Len(calls) |-> Call(calls[i].kind, <<>>, calls[i].out)]

Op(name, stage_in, response, s) ==
  [name |-> name, stage_in |-> stage_in, response |-> response,
   calls |-> s.calls, ret |-> s.ret, rec |-> s.rec, exc |-> s.exc,
   branch |-> s.branch]

Store(s) ==
  /\ current_stage' = s.stage
  /\ interview_notes' = s.notes
  /\ interview_context' = s.ctx

\* SessionManager.get_coordinator: registers a coordinator if there is none
\* and stamps the activity time
Touch ==
  /\ coordinators' = TRUE
  /\ last_activity' = TRUE

\* SessionManager.cleanup_session: the coordinator object is dropped
Drop ==
  /\ coordinators' = FALSE
  /\ last_activity' = FALSE
  /\ Store(NewCoordinator)

\* map_agent_stage_to_db_stage
map_agent_stage_to_db_stage(agent_stage) ==
  IF agent_stage \in {INTRODUCTION, TECHNICAL_QUESTIONS, CODING_PROBLEM,
                      CODE_EVALUATION, FINAL_EVALUATION}
  THEN agent_stage ELSE INTRODUCTION

\* SessionManager.reinitialize_coordinator: the old coordinator is cleaned
\* up, then create_coordinator passes keyword arguments that
\* CoordinatorAgent.__init__ does not take, and the TypeError propagates
reinitialize_coordinator(name) ==
  /\ Drop
  /\ op' = Op(name, Coordinator.stage, NONE,
              [Begin(NewCoordinator) EXCEPT !.exc = TRUE, !.branch = "reinitialize"])

\* the worker threads of the host that serve requests of one session; the
\* routes are plain functions, so each request runs in a thread of its own
Requests == {"t1", "t2"}

\* the session ids used as keys of the session manager's dicts
SessionIds == {"A", "B"}

\* a worker thread that is serving no request
NoCoordinator == [session |-> "-", id |-> 0]

\* SessionManager.__init__: both dicts empty; no session row yet
NewSessionManager == [rows |-> {}, coordinators |-> <<>>, last_activity |-> {}]

Init ==
  /\ coordinators = FALSE
  /\ last_activity = FALSE
  /\ started = FALSE
  /\ failures = 0
  /\ current_stage = NewCoordinator.stage
  /\ interview_notes = NewCoordinator.notes
  /\ interview_context = NewCoordinator.ctx
  /\ session_stage = INTRODUCTION
  /\ op = Op("init", INTRODUCTION, NONE, Begin(NewCoordinator))
  /\ requests = [t \in Requests |-> [pc |-> "idle", stage |-> INTRODUCTION,
                                      response |-> NONE]]
  /\ sessions = NewSessionManager
  /\ released = {}
  /\ idle = {}
  /\ sweep = [pc |-> "sleeping", sessions_to_cleanup |-> {}]
  /\ serving = [t \in Requests |-> NoCoordinator]

\* ----------------------------------------------------------------- actions
\* at most MaxFailures requests of a session meet a raising generation call
Failing(b) ==
  /\ b => failures < MaxFailures
  /\ failures' = IF b THEN failures + 1 ELSE failures

\* POST /sessions: the session row is committed, then create_coordinator
\* raises the TypeError before a coordinator is registered or started.
CreateInterviewSession ==
  /\ ~started
  /\ started' = TRUE
  /\ op' = Op("create", NewCoordinator.stage, NONE,
              [Begin(NewCoordinator) EXCEPT !.exc = TRUE])
  /\ UNCHANGED <<coordinators, last_activity, failures, current_stage,
                 interview_notes, interview_context, session_stage>>
  /\ UNCHANGED <<requests, sessions, released, idle, sweep, serving>>

\* CoordinatorAgent.start_interview on a newly constructed coordinator that
\* is registered under the session id: what session creation does once a
\* coordinator is constructed.
StartInterview ==
  /\ ~started
  /\ \E candidate_name \in Names, role \in Roles, difficulty \in Difficulties,
        g \in IntroOutcomes :
       LET c == [NewCoordinator EXCEPT !.ctx.candidate_name = candidate_name,
                                       !.ctx.role = role,
                                       !.ctx.difficulty = difficulty]
           Started(s) ==
             /\ Failing(g = FAIL)
             /\ Store(s)
             /\ op' = Op("start", NewCoordinator.stage, candidate_name, s)
       IN Started(start_interview(Begin(c), candidate_name, g))
  /\ started' = TRUE
  /\ Touch
  /\ UNCHANGED session_stage
  /\ UNCHANGED <<requests, sessions, released, idle, sweep, serving>>

\* POST /sessions/{id}/respond
Respond ==
  /\ started
  /\ Len(Coordinator.notes) < MaxNotes
  /\ \/ /\ reinitialize_coordinator("respond")
        /\ UNCHANGED <<started, failures, session_stage>>
     \/ \E response \in ResponsesAt(Coordinator.stage) :
          \E G \in GChoices(Coordinator.stage) :
            LET Responded(s) ==
                  /\ Failing(HasFail(G))
                  /\ Touch
                  /\ Store(s)
                  /\ op' = Op("respond", Coordinator.stage, response, s)
                  /\ session_stage' = IF s.exc THEN session_stage
                                      ELSE map_agent_stage_to_db_stage(s.stage)
                  /\ UNCHANGED started
            IN Responded(handle_candidate_response(Begin(Coordinator), response, G))
  /\ UNCHANGED <<requests, sessions, released, idle, sweep, serving>>

\* the route's own guard on the returned dict, applied to the object that
\* the context's submission list also holds
BackfillFeedback(evaluation) ==
  IF Missing(evaluation, "feedback")
  THEN Put(evaluation, "feedback",
           <<"The code was evaluated, but no detailed feedback was provided.">>)
  ELSE evaluation

\* POST /sessions/{id}/code
SubmitCode ==
  /\ started
  /\ Len(Coordinator.notes) < MaxNotes
  /\ Len(Coordinator.ctx.code_submissions) < MaxSubmissions
  /\ \/ /\ reinitialize_coordinator("code")
        /\ UNCHANGED <<started, failures, session_stage>>
     \/ \E code \in Codes, problem_statement \in Problems, language \in Languages,
           g \in EvalOutcomes :
          LET Committed(t) ==
                /\ Failing(g = FAIL)
                /\ Touch
                /\ Store(t)
                /\ op' = Op("code", Coordinator.stage, code, t)
                /\ session_stage' = IF t.exc THEN session_stage
                                    ELSE map_agent_stage_to_db_stage(t.stage)
                /\ UNCHANGED started
              Evaluated(s) ==
                Committed(IF s.exc THEN s
                          ELSE [s EXCEPT !.rec = BackfillFeedback(@),
                                         !.ctx.code_submissions[Len(s.ctx.code_submissions)]
                                            .evaluation = BackfillFeedback(@)])
          IN Evaluated(evaluate_code(Begin(Coordinator), code, problem_statement,
                                     language, g))
  /\ UNCHANGED <<requests, sessions, released, idle, sweep, serving>>

\* POST /sessions/{id}/evaluate-code
EvaluateCode ==
  /\ Len(Coordinator.notes) < MaxNotes
  /\ Len(Coordinator.ctx.code_submissions) < MaxSubmissions
  /\ \/ /\ reinitialize_coordinator("evaluate-code")
        /\ UNCHANGED <<started, failures, session_stage>>
     \/ \E code \in Codes, problem_statement \in Problems, language \in Languages,
           g \in EvalOutcomes :
          LET Evaluated(s) ==
                /\ Failing(g = FAIL)
                /\ Touch
                /\ Store(s)
                /\ op' = Op("evaluate-code", Coordinator.stage, code, s)
                /\ UNCHANGED <<started, session_stage>>
          IN Evaluated(evaluate_code(Begin(Coordinator), code, problem_statement,
                                     language, g))
  /\ UNCHANGED <<requests, sessions, released, idle, sweep, serving>>

\* the record the final-evaluation route answers with when anything raised
fallback_evaluation ==
  [technical_skill |-> 6, problem_solving |-> 6, communication |-> 7,
   overall_rating |-> 6,
   strengths |-> <<"Communication skills", "Technical knowledge", "Problem-solving ability">>,
   areas_for_improvement |-> <<"Consider more edge cases", "Explore advanced coding patterns">>,
   recommendation |-> [decision |-> "hire", confidence |-> "medium"],
   detailed_feedback |-> <<"Thank you for completing the interview. There was an error generating a detailed evaluation, but based on the overall performance, the candidate demonstrated adequate technical skills and problem-solving abilities.">>]

\* POST /sessions/{id}/final-evaluation: the evaluation is produced, the
\* session row is marked FINAL_EVALUATION and the coordinator is cleaned up;
\* a request that asks for reinitialisation ends in the except branch
FinalEvaluation ==
  /\ started
  /\ \/ /\ Drop
        /\ op' = Op("final", Coordinator.stage, NONE,
                    [Begin(NewCoordinator) EXCEPT !.rec = fallback_evaluation])
        /\ session_stage' = FINAL_EVALUATION
        /\ UNCHANGED <<started, failures>>
     \/ \E g \in FinalOutcomes, g_retry \in FinalRetryOutcomes :
          /\ g # KEYERROR => g_retry = GBase.final_retry
          /\ Failing(g \in {FAIL, KEYERROR})
          /\ Drop
          /\ op' = Op("final", Coordinator.stage, NONE,
                      [get_final_evaluation(Begin(Coordinator), g, g_retry)
                         EXCEPT !.calls = Kinds(@)])
          /\ session_stage' = FINAL_EVALUATION
          /\ UNCHANGED started
  /\ UNCHANGED <<requests, sessions, released, idle, sweep, serving>>

\* SessionManager.cleanup_inactive_sessions: the periodic sweep, run when
\* the clock has moved past the session's idle threshold
CleanupInactiveSessions ==
  /\ last_activity
  /\ Drop
  /\ op' = Op("sweep", current_stage, NONE, Begin(NewCoordinator))
  /\ UNCHANGED <<started, failures, session_stage>>
  /\ UNCHANGED <<requests, sessions, released, idle, sweep, serving>>

Next ==
  \/ CreateInterviewSession
  \/ StartInterview
  \/ Respond
  \/ SubmitCode
  \/ EvaluateCode
  \/ FinalEvaluation
  \/ CleanupInactiveSessions

Spec == Init /\ [][Next]_vars

TypeOK ==
  /\ coordinators \in BOOLEAN
  /\ last_activity \in BOOLEAN
  /\ current_stage \in InterviewStage
  /\ session_stage \in InterviewStage

\* ------------------------------------------- the coordinator's helpers alone
\* The coordinator's text helpers applied to enumerated texts.  A behaviour
\* takes one input, applies one helper to it and keeps what it produced; the
\* routing step starts from the coordinator a session has once its coding
\* problem has been posed.
Texts(atoms) == UNION {[1..k -> atoms] : k \in 0..MaxAtoms}

\* every indicator of _looks_like_code and some text free of indicators
CodeAtoms ==
  code_indicators \cup {"I like graphs", ":", "public"}

\* the substrings _detect_language looks for, alone and combined
LanguageAtoms ==
  {"def ", ":", "def f():", "function ", "function f() {", "public class",
   "#include", "export", "import React", "I like graphs"}

TopicTexts ==
  {<<"graphs", ",", " ", "hashing">>, <<" ", "graphs", " ">>, <<>>}

\* the coordinator get_coordinator constructs, after n answered requests:
\* the third answer is a code response, the others are plain text
RECURSIVE AfterAnswers(_)
AfterAnswers(n) ==
  IF n = 0 THEN Begin(NewCoordinator)
  ELSE handle_candidate_response(
         Begin(AfterAnswers(n - 1)),
         IF n = 3 THEN <<"def ", "solve(arr)", ":", " ", "return ", "sorted(arr)">>
         ELSE <<"I like graphs">>,
         [GBase EXCEPT !.eval = <<"Nice.", " ", "{", "\"correctness\": 8", "}">>])

\* a coordinator standing at each stage the interview passes through
AtStage(stage) ==
  AfterAnswers(CASE stage = INTRODUCTION -> 0
                 [] stage = TECHNICAL_QUESTIONS -> 1
                 [] stage = CODING_PROBLEM -> 2
                 [] stage = CODE_EVALUATION -> 3
                 [] stage = FINAL_EVALUATION -> 4)

AtCodingProblem == AtStage(CODING_PROBLEM)

Transcripts ==
  LET Prefixes(notes) == {SubSeq(notes, 1, k) : k \in 0..Len(notes)}
  IN Prefixes(AtCodingProblem.notes)

\* nothing has been applied yet
Fresh == op.name = "init"

\* handle_candidate_response at CODING_PROBLEM: _looks_like_code routes
ProcessAtCodingProblem ==
  /\ Fresh
  /\ \E response \in Texts(CodeAtoms) \cup Codes :
       \E G \in GChoices(CODING_PROBLEM) :
         LET Routed(s) ==
               /\ Store(s)
               /\ op' = Op("process_response", CODING_PROBLEM, response, s)
         IN Routed(handle_candidate_response(Begin(AtCodingProblem), response, G))
  /\ UNCHANGED <<coordinators, last_activity, started, failures, session_stage>>
  /\ UNCHANGED <<requests, sessions, released, idle, sweep, serving>>

\* _detect_language(code)
DetectLanguage ==
  /\ Fresh
  /\ \E code \in Texts(LanguageAtoms) \cup Codes :
       op' = Op("detect_language", INTRODUCTION, code,
                [Begin(NewCoordinator) EXCEPT !.ret = detect_language(code)])
  /\ UNCHANGED <<coordinators, last_activity, started, failures, current_stage,
                 interview_notes, interview_context, session_stage>>
  /\ UNCHANGED <<requests, sessions, released, idle, sweep, serving>>

\* _derive_topics_from_responses(interview_notes, response)
DeriveTopics ==
  /\ Fresh
  /\ \E notes \in Transcripts, response \in {<<>>, <<"I like graphs">>},
        g \in TopicTexts \cup {FAIL} :
       LET Derived(d) ==
             /\ interview_notes' = notes
             /\ op' = Op("derive_topics", INTRODUCTION, response,
                         [d.s EXCEPT !.rec = [topics |-> d.topics]])
       IN Derived(derive_topics_from_responses(
                    Begin([NewCoordinator EXCEPT !.notes = notes]), notes, response, g))
  /\ UNCHANGED <<coordinators, last_activity, started, failures, current_stage,
                 interview_context, session_stage>>
  /\ UNCHANGED <<requests, sessions, released, idle, sweep, serving>>

\* CoordinatorAgent.evaluate_code called directly, whatever the stage
EvaluateCodeDirect ==
  /\ Fresh
  /\ \E stage \in {INTRODUCTION, TECHNICAL_QUESTIONS, CODING_PROBLEM,
                    CODE_EVALUATION, FINAL_EVALUATION},
        code \in Codes, problem_statement \in Problems \cup {<<>>},
        language \in Languages, g \in EvalOutcomes :
       LET Evaluated(s) ==
             /\ Store(s)
             /\ op' = Op("evaluate_code", stage, code, s)
       IN Evaluated(evaluate_code(Begin(AtStage(stage)), code, problem_statement,
                                  language, g))
  /\ UNCHANGED <<coordinators, last_activity, started, failures, session_stage>>
  /\ UNCHANGED <<requests, sessions, released, idle, sweep, serving>>

\* CoordinatorAgent.get_final_evaluation called directly, whatever the stage
GetFinalEvaluationDirect ==
  /\ Fresh
  /\ \E stage \in {INTRODUCTION, TECHNICAL_QUESTIONS, CODING_PROBLEM,
                    CODE_EVALUATION, FINAL_EVALUATION},
        g \in FinalOutcomes, g_retry \in FinalRetryOutcomes :
       /\ g # KEYERROR => g_retry = GBase.final_retry
       /\ LET Evaluated(s) ==
                /\ Store(s)
                /\ op' = Op("get_final_evaluation", stage, NONE, s)
          IN Evaluated(get_final_evaluation(Begin(AtStage(stage)), g, g_retry))
  /\ UNCHANGED <<coordinators, last_activity, started, failures, session_stage>>
  /\ UNCHANGED <<requests, sessions, released, idle, sweep, serving>>

\* the words the recommendation is read from, each followed by a blank
RecommendationAtoms ==
  {"hire ", "recommend ", "not recommend ", "not hire ", "unsuitable ", "fine ",
   "confident ", "not ", ". "}

\* _extract_recommendation(text)
ExtractRecommendation ==
  /\ Fresh
  /\ \E text \in Texts(RecommendationAtoms) :
       op' = Op("extract_recommendation", INTRODUCTION, text,
                [Begin(NewCoordinator) EXCEPT !.rec = extract_recommendation(Chars(text))])
  /\ UNCHANGED <<coordinators, last_activity, started, failures, current_stage,
                 interview_notes, interview_context, session_stage>>
  /\ UNCHANGED <<requests, sessions, released, idle, sweep, serving>>

\* texts the evaluation chain generates: a flat block, a block after a
\* block without recognised keys, a block after braces that do not parse,
\* a block with a nested block as a value, and prose
EvaluationTexts ==
  {<<"{", "\"correctness\": 8", ",", "\"feedback\": \"Good\"", "}">>,
   <<"{", "\"note\": 1", "}", " ", "{", "\"correctness\": 8", "}">>,
   <<"Use ", "{", "a dict", "}", " ", "{", "\"correctness\": 8", ",", "\"feedback\": \"\"", "}">>,
   <<"{", "\"correctness\": 8", ",", "\"details\": ", "{", "\"note\": 1", "}", "}">>,
   <<"Nice.">>}

\* the words scores are read from in prose
ScoreAtoms ==
  {"correctness: ", "quality ", "overall: ", "8/10 ", "12/10 ", "85 ",
   "7 out of 10 ", "110 "}

\* EvaluatorAgent.evaluate_code on its own
EvaluateWithCodeEvaluator ==
  /\ Fresh
  /\ \E code \in Codes, problem_statement \in Problems, language \in Languages,
        g \in EvaluationTexts \cup Texts(ScoreAtoms)
               \cup {<<"{", "\"correctness\": 11", "}">>, FAIL} :
       op' = Op("code_evaluator", INTRODUCTION, g,
                code_evaluator_evaluate_code(Begin(NewCoordinator), code,
                                             problem_statement, language, g))
  /\ UNCHANGED <<coordinators, last_activity, started, failures, current_stage,
                 interview_notes, interview_context, session_stage>>
  /\ UNCHANGED <<requests, sessions, released, idle, sweep, serving>>

\* base responses of the problem chain, with the marker inside, in front
\* and absent
BaseResponses ==
  {<<"Let's code.", "\n\n", "Problem:", " ", "Two Sum">>,
   <<"Problem:", " ", "Two Sum">>, <<"Two Sum">>}

\* InterviewerAgent.present_coding_problem with every kind of context
PresentCodingProblemDirect ==
  /\ Fresh
  /\ \E difficulty \in Difficulties, topic \in {<<"graphs">>},
        context \in {NONE, <<>>, <<"hash maps">>, <<"I could not extract", " ", "topics">>},
        g \in BaseResponses \cup {FAIL}, g2 \in RewriteOutcomes :
       LET Presented(s) ==
             /\ Store(s)
             /\ op' = Op("present_coding_problem", TECHNICAL_QUESTIONS, context, s)
       IN Presented(present_coding_problem(Begin(AtStage(TECHNICAL_QUESTIONS)),
                                           difficulty, topic, context, g, g2))
  /\ UNCHANGED <<coordinators, last_activity, started, failures, session_stage>>
  /\ UNCHANGED <<requests, sessions, released, idle, sweep, serving>>

\* FinalEvaluatorAgent.evaluate_interview on its own
EvaluateInterviewDirect ==
  /\ Fresh
  /\ \E g \in Texts(ScoreAtoms) \cup {<<"{", "\"overall_rating\": 7", "}">>, FAIL} :
       op' = Op("final_evaluator", INTRODUCTION, g,
                evaluate_interview(Begin(NewCoordinator), <<>>, g, GBase.final_retry))
  /\ UNCHANGED <<coordinators, last_activity, started, failures, current_stage,
                 interview_notes, interview_context, session_stage>>
  /\ UNCHANGED <<requests, sessions, released, idle, sweep, serving>>

HelperNext ==
  \/ EvaluateInterviewDirect
  \/ PresentCodingProblemDirect
  \/ EvaluateWithCodeEvaluator
  \/ ExtractRecommendation
  \/ ProcessAtCodingProblem
  \/ DetectLanguage
  \/ DeriveTopics
  \/ EvaluateCodeDirect
  \/ GetFinalEvaluationDirect

HelperSpec == Init /\ [][HelperNext]_vars

\* ------------------------------------------------ the stage controller alone
\* The appending operations of one InterviewerAgent applied in any order,
\* at most MaxAppends of them on a transcript.  op.appended lists, in the
\* order the operations ran, the entry each one was asked to append: the
\* stage it stands at and the text it returned or was handed.
Controller ==
  [stage |-> current_stage, notes |-> interview_notes, ctx |-> interview_context]

Log == IF "appended" \in DOMAIN op THEN op.appended ELSE <<>>

ControllerOp(name, s, entries) ==
  [name |-> name, exc |-> s.exc, appended |-> Log \o entries]

Evaluations == {<<"Looks right">>}
Contexts == {NONE, <<"graphs">>, <<"I could not extract", " ", "topics">>}

ControllerStart ==
  /\ Len(interview_notes) < MaxAppends
  /\ \E candidate_name \in Names, g \in IntroOutcomes :
       LET Done(s) ==
             /\ Store(s)
             /\ op' = ControllerOp("start_interview", s,
                                   IF s.exc THEN <<>> ELSE <<Note(current_stage, g)>>)
       IN Done(start_interview(Begin(Controller), candidate_name, g))
  /\ UNCHANGED <<coordinators, last_activity, started, failures, session_stage>>
  /\ UNCHANGED <<requests, sessions, released, idle, sweep, serving>>

ControllerAskTechnicalQuestions ==
  /\ Len(interview_notes) < MaxAppends
  /\ \E background \in {<<"I like graphs">>}, role \in Roles,
        difficulty \in Difficulties, g \in QuestionOutcomes :
       LET Done(s) ==
             /\ Store(s)
             /\ op' = ControllerOp("ask_technical_questions", s,
                                   IF s.exc THEN <<>>
                                   ELSE <<Note(TECHNICAL_QUESTIONS, g)>>)
       IN Done(ask_technical_questions(Begin(Controller), background, role,
                                       difficulty, g))
  /\ UNCHANGED <<coordinators, last_activity, started, failures, session_stage>>
  /\ UNCHANGED <<requests, sessions, released, idle, sweep, serving>>

ControllerPresentCodingProblem ==
  /\ Len(interview_notes) < MaxAppends
  /\ \E difficulty \in Difficulties, topic \in {<<"graphs">>},
        context \in Contexts, g \in ProblemOutcomes, g2 \in RewriteOutcomes :
       LET Done(s) ==
             /\ Store(s)
             /\ op' = ControllerOp("present_coding_problem", s,
                                   IF s.exc THEN <<>>
                                   ELSE <<Note(CODING_PROBLEM, s.ret)>>)
       IN Done(present_coding_problem(Begin(Controller), difficulty, topic,
                                      context, g, g2))
  /\ UNCHANGED <<coordinators, last_activity, started, failures, session_stage>>
  /\ UNCHANGED <<requests, sessions, released, idle, sweep, serving>>

ControllerAddEvaluation ==
  /\ Len(interview_notes) < MaxAppends
  /\ \E evaluation \in Evaluations, problem_statement \in Problems \cup {<<>>, NONE} :
       LET Done(s) ==
             /\ Store(s)
             /\ op' = ControllerOp("add_evaluation_to_notes", s,
                   <<IF problem_statement \in Problems
                     THEN [stage |-> CODE_EVALUATION, content |-> evaluation,
                           problem_statement |-> problem_statement]
                     ELSE Note(CODE_EVALUATION, evaluation)>>)
       IN Done(add_evaluation_to_notes(Begin(Controller), evaluation,
                                       problem_statement))
  /\ UNCHANGED <<coordinators, last_activity, started, failures, session_stage>>
  /\ UNCHANGED <<requests, sessions, released, idle, sweep, serving>>

ControllerAddFinalEvaluation ==
  /\ Len(interview_notes) < MaxAppends
  /\ \E evaluation \in Evaluations :
       LET Done(s) ==
             /\ Store(s)
             /\ op' = ControllerOp("add_final_evaluation", s,
                                   <<Note(FINAL_EVALUATION, evaluation)>>)
       IN Done(add_final_evaluation(Begin(Controller), evaluation))
  /\ UNCHANGED <<coordinators, last_activity, started, failures, session_stage>>
  /\ UNCHANGED <<requests, sessions, released, idle, sweep, serving>>

\* handle_candidate_response: the response is recorded, then whatever the
\* coordinator's routing appends follows it
ControllerHandleResponse ==
  /\ Len(interview_notes) < MaxAppends
  /\ \E response \in ResponsesAt(current_stage), G \in GChoices(current_stage) :
       LET Done(s) ==
             /\ Store(s)
             /\ op' = ControllerOp("handle_candidate_response", s,
                   <<Note(current_stage, <<"Candidate: ">> \o response)>>
                     \o SubSeq(s.notes, Len(interview_notes) + 2, Len(s.notes)))
       IN Done(handle_candidate_response(Begin(Controller), response, G))
  /\ UNCHANGED <<coordinators, last_activity, started, failures, session_stage>>
  /\ UNCHANGED <<requests, sessions, released, idle, sweep, serving>>

ControllerNext ==
  \/ ControllerStart
  \/ ControllerAskTechnicalQuestions
  \/ ControllerPresentCodingProblem
  \/ ControllerAddEvaluation
  \/ ControllerAddFinalEvaluation
  \/ ControllerHandleResponse

ControllerSpec == Init /\ [][ControllerNext]_vars

\* ---------------------------------------- two requests of one session at once
\* The respond route runs in a worker thread and holds no lock.  A thread
\* looks the coordinator up, notes the response under the stage it reads
\* and passes that stage on; it then waits in its first blocking generation
\* call, where another thread can be scheduled.
AcceptResponse(t) ==
  /\ started
  /\ requests[t].pc = "idle"
  /\ Len(Coordinator.notes) < MaxNotes
  /\ \E response \in ResponsesAt(Coordinator.stage) :
       /\ requests' = [requests EXCEPT ![t] = [pc |-> "running",
                                                stage |-> Coordinator.stage,
                                                response |-> response]]
       /\ Store([Coordinator EXCEPT
                   !.notes = Append(@, Note(Coordinator.stage,
                                            <<"Candidate: ">> \o response))])
       /\ op' = Op("accept", Coordinator.stage, response, Begin(Coordinator))
  /\ Touch
  /\ UNCHANGED <<started, failures, session_stage, sessions, released, idle, sweep, serving>>

\* the rest of process_response, routed on the stage the thread read
CompleteResponse(t) ==
  /\ requests[t].pc = "running"
  /\ \E G \in GChoices(requests[t].stage) :
       LET Responded(s) ==
             /\ Failing(HasFail(G))
             /\ Store(s)
             /\ op' = Op("respond", requests[t].stage, requests[t].response, s)
             /\ session_stage' = IF s.exc THEN session_stage
                                 ELSE map_agent_stage_to_db_stage(s.stage)
       IN Responded(process_response(Begin(Coordinator), requests[t].stage,
                                     requests[t].response, G))
  /\ requests' = [requests EXCEPT ![t].pc = "idle"]
  /\ UNCHANGED <<coordinators, last_activity, started, sessions, released, idle, sweep, serving>>

ConcurrentNext ==
  \/ CreateInterviewSession
  \/ \E t \in Requests : AcceptResponse(t)
  \/ \E t \in Requests : CompleteResponse(t)

ConcurrentSpec == Init /\ [][ConcurrentNext]_vars

\* ------------------------------------------------ several sessions at once
\* The session manager with its two dicts keyed by session id.  A
\* coordinator object has an identity (the order of its construction), the
\* interview state it owns, the agents whose conversational memory holds
\* something, and whether its agents' clients are open.  m is the manager
\* together with the objects it has dropped.
Manager ==
  [rows |-> sessions.rows, coordinators |-> sessions.coordinators,
   last_activity |-> sessions.last_activity, released |-> released]

Keep(m) ==
  /\ sessions' = [rows |-> m.rows, coordinators |-> m.coordinators,
                  last_activity |-> m.last_activity]
  /\ released' = m.released

\* the number of CoordinatorAgent objects constructed so far
Constructed(m) == Cardinality(DOMAIN m.coordinators) + Cardinality(m.released)

\* CoordinatorAgent(): three agents, each with a client and an empty memory
NewObject(id) ==
  [id |-> id, stage |-> NewCoordinator.stage, notes |-> NewCoordinator.notes,
   ctx |-> NewCoordinator.ctx, memory |-> {}, open |-> TRUE]

\* what CoordinatorAgent defines: no cleanup among it
CoordinatorAttributes ==
  {"interviewer", "code_evaluator", "final_evaluator", "interview_context",
   "start_interview", "process_response", "evaluate_code", "get_final_evaluation",
   "get_interview_notes"}

\* BaseAgent.cleanup on each agent: client closed, memory cleared
cleanup(o) == [o EXCEPT !.memory = {}, !.open = FALSE]

\* del d[k]
Without(d, k) == [x \in DOMAIN d \ {k} |-> d[x]]

\* get_coordinator handing out a coordinator that is already registered
get_coordinator_shared(m, session_id) ==
  [m EXCEPT !.coordinators =
              IF session_id \in DOMAIN @ THEN @
              ELSE IF DOMAIN @ # {} THEN Put(@, session_id, @[CHOOSE k \in DOMAIN @ : TRUE])
              ELSE Put(@, session_id, NewObject(Constructed(m) + 1)),
            !.last_activity = @ \cup {session_id}]

\* SessionManager.get_coordinator
get_coordinator(m, session_id) ==
  [m EXCEPT !.coordinators =
              IF session_id \in DOMAIN @ THEN @
              ELSE Put(@, session_id, NewObject(Constructed(m) + 1)),
            !.last_activity = @ \cup {session_id}]

\* cleanup_session deleting the coordinator and keeping the stamp
cleanup_session_stamped(m, session_id) ==
  LET Left(o) == [id |-> o.id, memory |-> o.memory, open |-> o.open]
  IN [m EXCEPT !.released = IF session_id \in DOMAIN m.coordinators
                            THEN @ \cup {Left(m.coordinators[session_id])}
                            ELSE @,
               !.coordinators = Without(@, session_id)]

\* SessionManager.cleanup_session: the hook is called only if the
\* coordinator has one; the object leaves the dict either way
cleanup_session(m, session_id) ==
  LET Hooked(o) == IF "cleanup" \in CoordinatorAttributes THEN cleanup(o) ELSE o
      Left(o) == [id |-> o.id, memory |-> o.memory, open |-> o.open]
  IN [m EXCEPT !.released = IF session_id \in DOMAIN m.coordinators
                            THEN @ \cup {Left(Hooked(m.coordinators[session_id]))}
                            ELSE @,
               !.coordinators = Without(@, session_id),
               !.last_activity = @ \ {session_id}]

\* SessionManager.cleanup_inactive_sessions over the ids found idle
RECURSIVE cleanup_inactive_sessions(_, _)
cleanup_inactive_sessions(m, sessions_to_cleanup) ==
  LET Rest(session_id) ==
        cleanup_inactive_sessions(cleanup_session(m, session_id),
                                  sessions_to_cleanup \ {session_id})
  IN IF sessions_to_cleanup = {} THEN m
     ELSE Rest(CHOOSE session_id \in sessions_to_cleanup : TRUE)

\* the agents whose memory a finished call has written to
Remembered(s) ==
  {"code_evaluator" : i \in {j \in 1..Len(s.calls) :
       s.calls[j].kind = "code_evaluation" /\ s.calls[j].out # FAIL}}
  \cup {"final_evaluator" : i \in {j \in 1..Len(s.calls) :
       s.calls[j].kind = "final_evaluation" /\ s.calls[j].out \notin {FAIL, KEYERROR}}}

\* the session's coordinator after a call on it
After(m, session_id, s, agents) ==
  [m EXCEPT !.coordinators[session_id] =
     [@ EXCEPT !.stage = s.stage, !.notes = s.notes, !.ctx = s.ctx,
               !.memory = @ \cup agents \cup Remembered(s)]]

\* the last request: which session it named and whether it raised
SessionOp(session_id, name, s) ==
  [session |-> session_id, name |-> name, exc |-> s.exc]

\* get_coordinator can construct an object
CanServe(m, session_id) ==
  session_id \in DOMAIN m.coordinators \/ Constructed(m) < MaxObjects

Unchanged ==
  UNCHANGED <<coordinators, last_activity, started, failures, current_stage,
              interview_notes, interview_context, session_stage, requests,
              idle, sweep, serving>>

\* POST /sessions: the row is committed, then create_coordinator raises
SessionCreate(session_id) ==
  /\ session_id \notin sessions.rows
  /\ Keep([Manager EXCEPT !.rows = @ \cup {session_id}])
  /\ op' = SessionOp(session_id, "create", [Begin(NewCoordinator) EXCEPT !.exc = TRUE])
  /\ Unchanged

\* POST /sessions/{id}/respond
SessionRespond(session_id) ==
  /\ session_id \in sessions.rows
  /\ CanServe(Manager, session_id)
  /\ LET Responded(m, s) ==
           /\ Keep(After(m, session_id, s, {"interviewer"}))
           /\ op' = SessionOp(session_id, "respond", s)
         Served(m, o) ==
           /\ Len(o.notes) < MaxNotes
           /\ \E response \in ResponsesAt(o.stage) :
                Responded(m, handle_candidate_response(Begin(o), response, GBase))
         Looked(m) == Served(m, m.coordinators[session_id])
     IN Looked(get_coordinator(Manager, session_id))
  /\ Unchanged

\* POST /sessions/{id}/evaluate-code: no row is looked up
SessionEvaluateCode(session_id) ==
  /\ CanServe(Manager, session_id)
  /\ LET Evaluated(m, s) ==
           /\ Keep(After(m, session_id, s, {}))
           /\ op' = SessionOp(session_id, "evaluate-code", s)
         Served(m, o) ==
           /\ Len(o.notes) < MaxNotes
           /\ Len(o.ctx.code_submissions) < MaxSubmissions
           /\ \E code \in Codes, problem_statement \in Problems, language \in Languages :
                Evaluated(m, evaluate_code(Begin(o), code, problem_statement, language,
                                           <<"Nice.", " ", "{", "\"correctness\": 8", "}">>))
         Looked(m) == Served(m, m.coordinators[session_id])
     IN Looked(get_coordinator(Manager, session_id))
  /\ Unchanged

\* POST /sessions/{id}/final-evaluation: evaluation, then cleanup_session
SessionFinalEvaluation(session_id) ==
  /\ session_id \in sessions.rows
  /\ CanServe(Manager, session_id)
  /\ LET Evaluated(m, s) ==
           /\ Keep(cleanup_session(After(m, session_id, s, {}), session_id))
           /\ op' = SessionOp(session_id, "final", s)
         Looked(m) ==
           Evaluated(m, get_final_evaluation(Begin(m.coordinators[session_id]),
                                             GBase.final, GBase.final_retry))
     IN Looked(get_coordinator(Manager, session_id))
  /\ Unchanged

\* a request with custom settings: reinitialize_coordinator cleans the old
\* coordinator up, then create_coordinator raises
SessionReinitialize(session_id) ==
  /\ session_id \in sessions.rows
  /\ Keep(IF session_id \in DOMAIN sessions.coordinators
          THEN cleanup_session(Manager, session_id) ELSE Manager)
  /\ op' = SessionOp(session_id, "reinitialize",
                     [Begin(NewCoordinator) EXCEPT !.exc = TRUE])
  /\ Unchanged

\* the periodic sweep over the sessions idle for longer than the threshold
SweepSessions ==
  /\ \E sessions_to_cleanup \in SUBSET sessions.last_activity :
       /\ sessions_to_cleanup # {}
       /\ Keep(cleanup_inactive_sessions(Manager, sessions_to_cleanup))
  /\ op' = [name |-> "sweep", exc |-> FALSE]
  /\ Unchanged

SessionsNext ==
  \/ \E session_id \in SessionIds : SessionCreate(session_id)
  \/ \E session_id \in SessionIds : SessionRespond(session_id)
  \/ \E session_id \in SessionIds : SessionEvaluateCode(session_id)
  \/ \E session_id \in SessionIds : SessionFinalEvaluation(session_id)
  \/ \E session_id \in SessionIds : SessionReinitialize(session_id)
  \/ SweepSessions

SessionsSpec == Init /\ [][SessionsNext]_vars

\* ------------------------------------------- the sweep beside the requests
\* cleanup_inactive_sessions is called from a coroutine of the event loop
\* while the routes, plain functions, run in worker threads; neither side
\* holds a lock.  The sweep first collects the ids whose last activity is
\* older than the threshold and then cleans them up one by one, so a
\* request can be scheduled between the two loops and between two removals.
\* Time is kept as the set of sessions whose stamp has grown older than the
\* threshold; no stamp ages out while a request of the session is served.
Unswept ==
  UNCHANGED <<coordinators, last_activity, started, failures, current_stage,
              interview_notes, interview_context, session_stage, requests>>

Served(session_id) == \E t \in Requests : serving[t].session = session_id

\* the clock passes the idle threshold of a session's stamp
ClockPasses(session_id) ==
  /\ session_id \in sessions.last_activity \ idle
  /\ ~Served(session_id)
  /\ idle' = idle \cup {session_id}
  /\ op' = [session |-> session_id, name |-> "clock", exc |-> FALSE]
  /\ UNCHANGED <<sessions, released, sweep, serving>>
  /\ Unswept

\* a route looks its coordinator up: get_coordinator registers one if the
\* session has none and stamps the session with the current time
ObtainCoordinator(t, session_id) ==
  /\ session_id \in sessions.rows
  /\ serving[t] = NoCoordinator
  /\ CanServe(Manager, session_id)
  /\ LET Looked(m) ==
           /\ Len(m.coordinators[session_id].notes) < MaxNotes
           /\ Keep(m)
           /\ serving' = [serving EXCEPT ![t] =
                            [session |-> session_id,
                             id |-> m.coordinators[session_id].id]]
     IN Looked(get_coordinator(Manager, session_id))
  /\ idle' = idle \ {session_id}
  /\ op' = [session |-> session_id, name |-> "obtain", exc |-> FALSE]
  /\ UNCHANGED sweep
  /\ Unswept

\* the route processes the response on the coordinator object it obtained;
\* what it writes to an object the manager has dropped is out of reach of
\* every later request
ServeResponse(t) ==
  /\ serving[t] # NoCoordinator
  /\ LET Responded(session_id, s) ==
           /\ Keep(After(Manager, session_id, s, {"interviewer"}))
           /\ op' = [session |-> session_id, name |-> "served", exc |-> s.exc,
                     lost |-> FALSE]
         Registered(session_id, o) ==
           \E response \in ResponsesAt(o.stage) :
             Responded(session_id, handle_candidate_response(Begin(o), response, GBase))
         Orphaned(session_id) ==
           /\ Keep(Manager)
           /\ op' = [session |-> session_id, name |-> "served", exc |-> FALSE,
                     lost |-> TRUE]
         Held(session_id, id) ==
           IF /\ session_id \in DOMAIN sessions.coordinators
              /\ sessions.coordinators[session_id].id = id
           THEN Registered(session_id, sessions.coordinators[session_id])
           ELSE Orphaned(session_id)
     IN Held(serving[t].session, serving[t].id)
  /\ serving' = [serving EXCEPT ![t] = NoCoordinator]
  /\ UNCHANGED <<idle, sweep>>
  /\ Unswept

\* cleanup_inactive_sessions, first loop: the ids found idle are collected
ScanSessions ==
  /\ sweep.pc = "sleeping"
  /\ sessions.last_activity \cap idle # {}
  /\ sweep' = [pc |-> "removing",
               sessions_to_cleanup |-> sessions.last_activity \cap idle]
  /\ op' = [name |-> "scan", exc |-> FALSE]
  /\ UNCHANGED <<sessions, released, idle, serving>>
  /\ Unswept

\* cleanup_inactive_sessions, second loop: one collected id is cleaned up
RemoveSession ==
  /\ sweep.pc = "removing"
  /\ \E session_id \in sweep.sessions_to_cleanup :
       /\ Keep(cleanup_session(Manager, session_id))
       /\ idle' = idle \ {session_id}
       /\ sweep' = [pc |-> IF sweep.sessions_to_cleanup = {session_id}
                           THEN "sleeping" ELSE "removing",
                    sessions_to_cleanup |-> sweep.sessions_to_cleanup \ {session_id}]
       /\ op' = [session |-> session_id, name |-> "remove", exc |-> FALSE,
                 stamped |-> session_id \in sessions.last_activity,
                 idle |-> session_id \in idle]
  /\ UNCHANGED serving
  /\ Unswept

SweepNext ==
  \/ \E session_id \in SessionIds : SessionCreate(session_id)
  \/ \E session_id \in SessionIds : ClockPasses(session_id)
  \/ \E t \in Requests, session_id \in SessionIds : ObtainCoordinator(t, session_id)
  \/ \E t \in Requests : ServeResponse(t)
  \/ ScanSessions
  \/ RemoveSession

SweepSpec == Init /\ [][SweepNext]_vars

\* ------------------------------------------- an interview that is carried on
\* Every generation call returns a text, and a response that is accepted is
\* processed to its end.  The candidate keeps responding, and at
\* CODING_PROBLEM a code-like response stays possible until it is sent; the
\* responses that leave the stage where it is (help at CODING_PROBLEM, the
\* pass-through at FINAL_EVALUATION) are repeated at most MaxAppends times.
Succeeding(stage) == {G \in GChoices(stage) : ~HasFail(G)}

\* the entry is one that handle_candidate_response wrote
IsCandidateEntry(note) ==
  note.content # <<>> /\ Head(note.content) = "Candidate: "

\* the candidate entries recorded under the current stage
Repeats ==
  Cardinality({i \in 1..Len(Coordinator.notes) :
                 /\ Coordinator.notes[i].stage = Coordinator.stage
                 /\ IsCandidateEntry(Coordinator.notes[i])})

LiveStart ==
  /\ ~started
  /\ \E candidate_name \in Names, role \in Roles, difficulty \in Difficulties :
       LET c == [NewCoordinator EXCEPT !.ctx.candidate_name = candidate_name,
                                       !.ctx.role = role,
                                       !.ctx.difficulty = difficulty]
           Started(s) ==
             /\ Store(s)
             /\ op' = Op("start", NewCoordinator.stage, candidate_name, s)
       IN Started(start_interview(Begin(c), candidate_name, <<"Welcome">>))
  /\ started' = TRUE
  /\ Touch
  /\ UNCHANGED <<failures, session_stage>>
  /\ UNCHANGED <<requests, sessions, released, idle, sweep, serving>>

LiveRespond(responses) ==
  /\ started
  /\ \E response \in responses, G \in Succeeding(Coordinator.stage) :
       LET Responded(s) ==
             /\ Touch
             /\ Store(s)
             /\ op' = Op("respond", Coordinator.stage, response, s)
             /\ session_stage' = map_agent_stage_to_db_stage(s.stage)
       IN Responded(handle_candidate_response(Begin(Coordinator), response, G))
  /\ UNCHANGED <<started, failures>>
  /\ UNCHANGED <<requests, sessions, released, idle, sweep, serving>>

\* a response without code
RespondWithText ==
  /\ Coordinator.stage \in {CODING_PROBLEM, FINAL_EVALUATION} => Repeats < MaxAppends
  /\ LiveRespond({response \in ResponsesAt(Coordinator.stage) : ~looks_like_code(response)})

\* a code-like response to the coding problem
RespondWithCode ==
  /\ Coordinator.stage = CODING_PROBLEM
  /\ LiveRespond({response \in ResponsesAt(Coordinator.stage) : looks_like_code(response)})

LiveNext ==
  \/ CreateInterviewSession
  \/ LiveStart
  \/ RespondWithText
  \/ RespondWithCode

LiveSpec ==
  /\ Init
  /\ [][LiveNext]_vars
  /\ WF_vars(LiveStart)
  /\ WF_vars(RespondWithText)
  /\ WF_vars(RespondWithCode)

\* --------------------------------- an interview of start and responses only
\* The coordinator is driven by start_interview and by the processing of
\* candidate responses, with generation calls that return or raise; no
\* direct code submission, final-evaluation request, reconfiguration or
\* sweep takes part.  A stage takes at most MaxAppends candidate entries.
HandleCandidateResponse ==
  /\ started
  /\ Repeats < MaxAppends
  /\ \E response \in ResponsesAt(Coordinator.stage), G \in GChoices(Coordinator.stage) :
       LET Responded(s) ==
             /\ Failing(HasFail(G))
             /\ Touch
             /\ Store(s)
             /\ op' = Op("respond", Coordinator.stage, response, s)
             /\ session_stage' = IF s.exc THEN session_stage
                                 ELSE map_agent_stage_to_db_stage(s.stage)
       IN Responded(handle_candidate_response(Begin(Coordinator), response, G))
  /\ UNCHANGED started
  /\ UNCHANGED <<requests, sessions, released, idle, sweep, serving>>

InterviewNext ==
  \/ CreateInterviewSession
  \/ StartInterview
  \/ HandleCandidateResponse

InterviewSpec == Init /\ [][InterviewNext]_vars

\* ------------------------------------------------------------------ claims
\* the transcript entries the step has appended
Appended ==
  SubSeq(interview_notes', Len(interview_notes) + 1, Len(interview_notes'))

\* the entry handle_candidate_response writes for the candidate's response
CandidateNote == Note(current_stage, <<"Candidate: ">> \o op'.response)

\* the step is a candidate response processed at the given stage (a
\* request that asks for reconfiguration raises before any processing)
RespondAt(stage) ==
  op'.name = "respond" /\ op'.branch # "reinitialize" /\ op'.stage_in = stage

CallKinds(calls) == [i \in 1..Len(calls) |-> calls[i].kind]

\* C1: a newly created stage controller has stage INTRODUCTION and an empty
\* transcript; start(candidate_name) on it issues the introduction request,
\* appends exactly one entry tagged INTRODUCTION whose content is the
\* generated text it returns, and leaves the stage at INTRODUCTION.
C1_StartAppendsIntroduction ==
  [][op'.name = "start" =>
       /\ NewCoordinator.stage = INTRODUCTION
       /\ NewCoordinator.notes = <<>>
       /\ current_stage' = INTRODUCTION
       /\ ~op'.exc =>
            /\ CallKinds(op'.calls) = <<"introduction">>
            /\ op'.calls[1].args = <<op'.response>>
            /\ op'.ret = op'.calls[1].out
            /\ interview_notes' = <<Note(INTRODUCTION, op'.ret)>>]_vars

C1_Witness ==
  /\ op.name = "start"
  /\ ~op.exc
  /\ op.ret = <<"Welcome">>
  /\ interview_notes = <<Note(INTRODUCTION, <<"Welcome">>)>>
  /\ current_stage = INTRODUCTION

\* C2: a response processed at INTRODUCTION with its generation calls
\* succeeding stores the generated summary (not the raw response) as the
\* context's background, asks the technical questions with that summary and
\* the stored role and difficulty, sets the stage to TECHNICAL_QUESTIONS and
\* appends exactly one TECHNICAL_QUESTIONS entry holding the returned text.
C2_IntroductionStep ==
  [][(RespondAt(INTRODUCTION) /\ ~op'.exc) =>
       /\ CallKinds(op'.calls) = <<"summary", "technical_questions">>
       /\ op'.calls[1].args = <<op'.response>>
       /\ interview_context'.background = op'.calls[1].out
       /\ interview_context'.background # op'.response
       /\ op'.calls[2].args = <<op'.calls[1].out, interview_context.role,
                                interview_context.difficulty>>
       /\ op'.ret = op'.calls[2].out
       /\ current_stage' = TECHNICAL_QUESTIONS
       /\ Appended = <<CandidateNote, Note(TECHNICAL_QUESTIONS, op'.ret)>>]_vars

C2_Witness ==
  /\ op.name = "respond"
  /\ op.stage_in = INTRODUCTION
  /\ ~op.exc
  /\ interview_context.background = <<"summary">>
  /\ interview_context.role = <<"backend_developer">>
  /\ interview_context.difficulty = <<"hard">>
  /\ current_stage = TECHNICAL_QUESTIONS
  /\ interview_notes[Len(interview_notes)] = Note(TECHNICAL_QUESTIONS, <<"Q1?">>)

\* the first topic of the list derived from the topic call's outcome
FirstDerivedTopic(out) ==
  IF out = FAIL THEN default_topics[1] ELSE Strip(SplitComma(out)[1])

\* C3: a response processed at TECHNICAL_QUESTIONS issues its generation
\* calls one after another in the order topic derivation, context
\* extraction, problem generation, optional intro rewrite, and returns only
\* after the last of them; it ends at stage CODING_PROBLEM with exactly one
\* new CODING_PROBLEM entry, the problem having been requested for the
\* first derived topic and with the extracted technical context.
C3_TechnicalQuestionsStep ==
  [][(RespondAt(TECHNICAL_QUESTIONS) /\ ~op'.exc) =>
       /\ CallKinds(op'.calls) \in
            {<<"topics", "context", "code_problem">>,
             <<"topics", "context", "code_problem", "rewrite_intro">>}
       /\ \A i \in 2..Len(op'.calls) : op'.calls[i].out # FAIL
       /\ op'.calls[3].args = <<interview_context.difficulty,
                                FirstDerivedTopic(op'.calls[1].out),
                                op'.calls[2].out>>
       /\ op'.ret \in {op'.calls[3].out,
                       SpliceIntro(op'.calls[3].out, op'.calls[Len(op'.calls)].out)}
       /\ current_stage' = CODING_PROBLEM
       /\ Appended = <<CandidateNote, Note(CODING_PROBLEM, op'.ret)>>]_vars

C3_Witness ==
  /\ op.name = "respond"
  /\ op.stage_in = TECHNICAL_QUESTIONS
  /\ ~op.exc
  /\ CallKinds(op.calls) = <<"topics", "context", "code_problem", "rewrite_intro">>
  /\ op.calls[3].args = <<<<"hard">>, <<"graphs">>, <<"hash maps">>>>
  /\ current_stage = CODING_PROBLEM

\* C4: a code-like response processed at CODING_PROBLEM invokes the code
\* evaluator exactly once with the stored current problem statement,
\* appends exactly one submission (problem, code, evaluation), records the
\* evaluation (stage CODE_EVALUATION, one evaluation entry) and returns
\* exactly the evaluation's feedback text.
C4_CodeSubmissionStep ==
  [][(RespondAt(CODING_PROBLEM) /\ looks_like_code(op'.response) /\ ~op'.exc) =>
       /\ CallKinds(op'.calls) = <<"code_evaluation">>
       /\ op'.calls[1].args[1] = op'.response
       /\ op'.calls[1].args[2] = interview_context'.current_problem
       /\ interview_context'.code_submissions =
            Append(interview_context.code_submissions,
                   [problem |-> interview_context'.current_problem,
                    code |-> op'.response, evaluation |-> op'.rec])
       /\ current_stage' = CODE_EVALUATION
       /\ Len(Appended) = 2
       /\ Appended[1] = CandidateNote
       /\ Appended[2].stage = CODE_EVALUATION
       /\ Appended[2].content = op'.rec.feedback
       /\ op'.ret = op'.rec.feedback]_vars

C4_Witness ==
  /\ op.name = "respond"
  /\ op.stage_in = CODING_PROBLEM
  /\ op.branch = "code"
  /\ ~op.exc
  /\ op.ret = <<"Good">>
  /\ Len(interview_context.code_submissions) = 1
  /\ current_stage = CODE_EVALUATION

\* C5: a response processed at CODING_PROBLEM that is not code-like leaves
\* the stage at CODING_PROBLEM and the whole context (submissions included)
\* unchanged, does not invoke the code evaluator, and returns the text of
\* its single free-form generation call verbatim.
C5_NonCodeStep ==
  [][(RespondAt(CODING_PROBLEM) /\ ~looks_like_code(op'.response)) =>
       /\ current_stage' = CODING_PROBLEM
       /\ interview_context' = interview_context
       /\ CallKinds(op'.calls) = <<"help">>
       /\ op'.calls[1].args = <<op'.response>>
       /\ ~op'.exc => op'.ret = op'.calls[1].out]_vars

C5_Witness ==
  /\ op.name = "respond"
  /\ op.stage_in = CODING_PROBLEM
  /\ op.branch = "help"
  /\ ~op.exc
  /\ op.ret = <<"Hint">>
  /\ current_stage = CODING_PROBLEM
  /\ interview_context.code_submissions = <<>>

C7_EvaluationStageHasSubmission ==
  /\ current_stage = CODE_EVALUATION =>
       Len(interview_context.code_submissions) >= 1
  /\ op.branch # "second_problem"

C7_Witness ==
  /\ op.name = "respond"
  /\ op.stage_in = CODE_EVALUATION
  /\ op.branch = "final"
  /\ Len(interview_context.code_submissions) >= 1
  /\ "language" \in DOMAIN interview_context.code_submissions[1]

\* C8: FINAL_EVALUATION is terminal: once the session's stage is
\* FINAL_EVALUATION, processing a further candidate response only returns a
\* pass-through generation of the raw response, and the session's stage
\* remains FINAL_EVALUATION.
C8_FinalEvaluationTerminal ==
  [][(session_stage = FINAL_EVALUATION /\ op'.name = "respond"
        /\ op'.branch # "reinitialize") =>
       /\ op'.branch = "echo"
       /\ CallKinds(op'.calls) = <<"echo">>
       /\ op'.calls[1].args = <<op'.response>>
       /\ ~op'.exc => op'.ret = op'.calls[1].out
       /\ session_stage' = FINAL_EVALUATION]_vars

\* the evaluation-recording requests
IsCodeEvaluation ==
  /\ ~op.exc
  /\ \/ op.name \in {"code", "evaluate-code"}
     \/ op.name = "respond" /\ op.branch = "code"

\* C9: for every generated text (structured with or without a feedback key,
\* unstructured, or empty) the evaluation record returned by the code
\* evaluator has a non-empty feedback, and so has the feedback text
\* returned to the candidate and the one recorded in the transcript.
C9_FeedbackNeverEmpty ==
  IsCodeEvaluation =>
    /\ op.rec.feedback # <<>>
    /\ interview_notes[Len(interview_notes)].content # <<>>
    /\ op.name = "respond" => op.ret # <<>>

\* the outcome of the last generation call of the final evaluator
FinalText == op.calls[CHOOSE i \in 1..Len(op.calls) :
                        /\ op.calls[i].kind = "final_evaluation"
                        /\ \A j \in (i + 1)..Len(op.calls) :
                             op.calls[j].kind # "final_evaluation"].out

HasFinalCall == \E i \in 1..Len(op.calls) : op.calls[i].kind = "final_evaluation"

\* C10: for every outcome of the generation call (structured with or
\* without detailed_feedback, unstructured, empty, raised) the record
\* returned by the final evaluator has a non-empty detailed_feedback: the
\* parsed value, else the raw generated text, else the literal placeholder
\* (the degraded record's own text when the call raised).
C10_DetailedFeedbackNeverEmpty ==
  HasFinalCall =>
    /\ op.rec.detailed_feedback # <<>>
    /\ op.rec.detailed_feedback =
         CASE FinalText \in {FAIL, KEYERROR} -> DegradedEvaluation.detailed_feedback
           [] FinalText = <<>> ->
                <<"No detailed feedback could be generated for this interview.">>
           [] Contains(FinalText, "\"detailed_feedback\": \"Solid\"") -> <<"Solid">>
           [] OTHER -> FinalText

C10_Witness ==
  /\ HasFinalCall
  /\ FinalText = <<>>
  /\ op.rec.detailed_feedback =
       <<"No detailed feedback could be generated for this interview.">>

\* the last generation call of the request is the final evaluator's and raised
FinalCallRaised ==
  /\ op.calls # <<>>
  /\ op.calls[Len(op.calls)].kind = "final_evaluation"
  /\ op.calls[Len(op.calls)].out = FAIL

\* C11: when the generation call made by the final evaluator raises, the
\* evaluation does not raise: the caller gets the fixed degraded record,
\* whose four scores are 5, whose recommendation is undecided with low
\* confidence, and whose detailed_feedback names the error.
C11_DegradedOnFailure ==
  FinalCallRaised =>
    /\ ~op.exc
    /\ op.rec.technical_skill = 5
    /\ op.rec.problem_solving = 5
    /\ op.rec.communication = 5
    /\ op.rec.overall_rating = 5
    /\ op.rec.recommendation = [decision |-> "undecided", confidence |-> "low"]
    /\ Contains(op.rec.detailed_feedback, "<error>")

C11_Witness ==
  /\ FinalCallRaised
  /\ op.name = "respond"
  /\ op.rec.overall_rating = 5
  /\ current_stage = FINAL_EVALUATION

\* the four default topics, in order
FourDefaults ==
  << <<"algorithms">>, <<"data structures">>, <<"system design">>, <<"concurrency">> >>

\* the comma-separated pieces of a generated topic list, each stripped
PiecesOf(text) ==
  CASE text = <<"graphs", ",", " ", "hashing">> -> << <<"graphs">>, <<"hashing">> >>
    [] text = <<" ", "graphs", " ">> -> << <<"graphs">> >>
    [] text = <<>> -> << <<>> >>

\* C12: topic derivation never returns an empty list and never raises: on
\* an empty transcript (no generation call is made) or a failing generation
\* call it returns exactly algorithms, data structures, system design,
\* concurrency, and on a successful call the derived topics followed by
\* those four.
C12_TopicsNeverEmpty ==
  op.name = "derive_topics" =>
    /\ ~op.exc
    /\ op.rec.topics # <<>>
    /\ interview_notes = <<>> => (op.calls = <<>> /\ op.rec.topics = FourDefaults)
    /\ interview_notes # <<>> =>
         /\ CallKinds(op.calls) = <<"topics">>
         /\ op.rec.topics = IF op.calls[1].out = FAIL THEN FourDefaults
                             ELSE PiecesOf(op.calls[1].out) \o FourDefaults

C12_Witness ==
  /\ op.name = "derive_topics"
  /\ interview_notes # <<>>
  /\ op.calls[1].out = FAIL
  /\ op.rec.topics = FourDefaults

\* the response holds one of the fixed language-indicator substrings
HasIndicator == \E i \in 1..Len(op.response) : op.response[i] \in code_indicators

CodeEvaluatorCalled == \E i \in 1..Len(op.calls) : op.calls[i].kind = "code_evaluation"

\* C13: a response holding none of the indicator substrings is not taken
\* for code, and processing it at CODING_PROBLEM takes the non-code branch:
\* the code evaluator is not called and no submission is recorded.  A
\* response holding at least one indicator is taken for code: the code
\* branch runs, the code evaluator is called and, when it returns, the
\* submission is recorded.
C13_IndicatorsRoute ==
  op.name = "process_response" =>
    IF HasIndicator
    THEN /\ op.branch = "code"
         /\ CodeEvaluatorCalled
         /\ ~op.exc => Len(interview_context.code_submissions) = 1
    ELSE /\ op.branch = "help"
         /\ ~CodeEvaluatorCalled
         /\ interview_context.code_submissions = <<>>
         /\ current_stage = CODING_PROBLEM

C13_Witness ==
  /\ op.name = "process_response"
  /\ op.response = <<"public", "I like graphs">>
  /\ op.branch = "help"
  /\ ~op.exc
  /\ interview_context.code_submissions = <<>>

\* some atom of the classified text is one of these
Holds(atoms) == \E i \in 1..Len(op.response) : op.response[i] \in atoms

\* the checks of language detection on the classified text, in order
LanguageChecks ==
  << [language |-> <<"python">>,
      met |-> Holds({"def ", "def f():"}) /\ Holds({":", "def f():"})],
     [language |-> <<"javascript">>,
      met |-> Holds({"function ", "function f() {"}) /\ Holds({"function f() {"})],
     [language |-> <<"java">>, met |-> Holds({"public class"})],
     [language |-> <<"cpp">>, met |-> Holds({"#include"})],
     [language |-> <<"typescript">>, met |-> Holds({"import React", "export"})],
     [language |-> <<"unknown">>, met |-> TRUE] >>

\* C14: language detection never raises and answers with the language of
\* the earliest check the text meets, in the order python, javascript,
\* java, cpp, typescript, else unknown; the response
\* "def solve(arr): return sorted(arr)" at CODING_PROBLEM is taken for code
\* and evaluated as python.
C14_FirstMatchLanguage ==
  /\ op.name = "detect_language" =>
       /\ ~op.exc
       /\ \E k \in 1..Len(LanguageChecks) :
            /\ LanguageChecks[k].met
            /\ \A j \in 1..(k - 1) : ~LanguageChecks[j].met
            /\ op.ret = LanguageChecks[k].language
  /\ (op.name = "process_response"
        /\ op.response = <<"def ", "solve(arr)", ":", " ", "return ", "sorted(arr)">>) =>
       /\ op.branch = "code"
       /\ op.calls[1].kind = "code_evaluation"
       /\ op.calls[1].args[3] = <<"python">>

C14_Witness ==
  /\ op.name = "detect_language"
  /\ op.response = <<"export", "#include">>
  /\ op.ret = <<"cpp">>

\* C15: the candidate never sees a raw exception: whatever the stage and
\* the response, and whichever nested generation call fails, processing a
\* candidate response returns a non-empty text to its caller and does not
\* raise.
C15_ResponseNeverRaises ==
  (op.name = "respond" /\ op.branch # "reinitialize") =>
    /\ ~op.exc
    /\ Truthy(op.ret)

\* the requests of the session that have read its stage and not yet finished
Running == {t \in Requests : requests[t].pc = "running"}

\* C16: within one session, candidate-response processing never overlaps:
\* no request reads or changes the session's stage, transcript or context
\* while another one is still running, so no two requests act on the same
\* stage.
C16_NoOverlap ==
  \A t1, t2 \in Running : t1 = t2

\* no coordinator object is registered under two session ids, and none
\* that was dropped is still registered
OwnCoordinators ==
  /\ \A a, b \in DOMAIN sessions.coordinators :
       a # b => sessions.coordinators[a].id # sessions.coordinators[b].id
  /\ \A a \in DOMAIN sessions.coordinators :
       \A o \in released : o.id # sessions.coordinators[a].id

\* what a session holds: its coordinator with stage, transcript and context
Held(session_id) ==
  IF session_id \in DOMAIN sessions.coordinators
  THEN <<sessions.coordinators[session_id]>> ELSE <<>>

\* C17: distinct sessions are independent: no two session ids map to the
\* same coordinator, and a request naming session A (create, respond, code
\* evaluation, final evaluation, reconfiguration, with the teardown these
\* include) leaves the coordinator of every other session, its stage,
\* transcript and context, as it was.
C17_SessionsIndependent ==
  [][/\ OwnCoordinators'
     /\ op'.name # "sweep" =>
          \A b \in SessionIds \ {op'.session} : Held(b)' = Held(b)]_vars

C17_Witness ==
  /\ DOMAIN sessions.coordinators = {"A", "B"}
  /\ op.name = "respond"
  /\ op.session = "A"
  /\ sessions.coordinators["A"].stage = CODING_PROBLEM
  /\ sessions.coordinators["B"].stage = TECHNICAL_QUESTIONS

\* C18: reconfiguring a session's generation client, whether or not the
\* session has a coordinator, completes and leaves the session with a
\* coordinator whose context is the one accumulated before.
C18_ReconfigurationKeepsContext ==
  [][op'.branch = "reinitialize" =>
       /\ ~op'.exc
       /\ coordinators'
       /\ interview_context' = interview_context]_vars

\* C19: tearing a session down calls the cleanup hook of its coordinator:
\* the clients of the agents of a dropped coordinator are closed and none
\* of them holds conversational memory any more.
C19_TeardownCleansUp ==
  \A o \in released : ~o.open /\ o.memory = {}

\* the coordinator the direct entry point was called on
Entered == AtStage(op.stage_in)

\* the inputs of the direct entry point, as handed to the code evaluator
Submitted ==
  [code |-> op.calls[1].args[1], problem_statement |-> op.calls[1].args[2],
   language |-> op.calls[1].args[3]]

\* C20: from any stage, the direct code-submission entry point calls the
\* code evaluator once, appends exactly one submission to the context's
\* list, appends exactly one CODE_EVALUATION transcript entry carrying the
\* evaluation's feedback, with the problem statement attached when one is
\* given, sets the stage to CODE_EVALUATION and returns the evaluation
\* record.
C20_DirectEvaluation ==
  (op.name = "evaluate_code" /\ ~op.exc) =>
    /\ CallKinds(op.calls) = <<"code_evaluation">>
    /\ "feedback" \in DOMAIN op.rec
    /\ interview_context.code_submissions =
         Append(Entered.ctx.code_submissions,
                [problem |-> Submitted.problem_statement, code |-> Submitted.code,
                 language |-> Submitted.language, evaluation |-> op.rec])
    /\ interview_notes =
         Append(Entered.notes,
                IF Submitted.problem_statement = <<>>
                THEN [stage |-> CODE_EVALUATION, content |-> op.rec.feedback]
                ELSE [stage |-> CODE_EVALUATION, content |-> op.rec.feedback,
                      problem_statement |-> Submitted.problem_statement])
    /\ current_stage = CODE_EVALUATION

C20_Witness ==
  /\ op.name = "evaluate_code"
  /\ ~op.exc
  /\ op.stage_in = FINAL_EVALUATION
  /\ Len(interview_context.code_submissions) = 2
  /\ current_stage = CODE_EVALUATION
  /\ "problem_statement" \in DOMAIN interview_notes[Len(interview_notes)]

\* C21: the final-evaluation entry point hands the whole current transcript
\* to the Final Evaluator, appends exactly one FINAL_EVALUATION entry whose
\* content is the detailed_feedback of the record it returns, leaves the
\* stage at FINAL_EVALUATION and returns that record; when every generation
\* call fails the record is the degraded one and the same holds.
FinalCalls == {i \in 1..Len(op.calls) : op.calls[i].kind = "final_evaluation"}

C21_FinalEntryPoint ==
  op.name = "get_final_evaluation" =>
    /\ ~op.exc
    /\ FinalCalls = 1..Len(op.calls) /\ FinalCalls # {}
    /\ \A i \in FinalCalls : op.calls[i].args = <<DumpNotes(Entered.notes)>>
    /\ "detailed_feedback" \in DOMAIN op.rec
    /\ interview_notes =
         Append(Entered.notes, Note(FINAL_EVALUATION, op.rec.detailed_feedback))
    /\ current_stage = FINAL_EVALUATION
    /\ op.calls[Len(op.calls)].out \in {FAIL, KEYERROR} => op.rec = DegradedEvaluation
    /\ op.calls[Len(op.calls)].out \notin {FAIL, KEYERROR} =>
         op.rec = ParseFinalEvaluation(op.calls[Len(op.calls)].out)

\* the generation call failed at a stage before the last one and the
\* degraded record's feedback closes the transcript
C21_Witness ==
  /\ op.name = "get_final_evaluation"
  /\ op.stage_in = CODING_PROBLEM
  /\ op.calls[1].out = FAIL
  /\ op.rec = DegradedEvaluation
  /\ Len(interview_notes) = Len(Entered.notes) + 1
  /\ interview_notes[Len(interview_notes)].content = DegradedEvaluation.detailed_feedback

\* C22: after any sequence of appending operations on a stage controller
\* (start, technical questions, coding problem, evaluation, final
\* evaluation, candidate-response recording), reading the notes yields
\* exactly the entries appended, in insertion order, each with the stage
\* tag and the content it was appended with.
C22_NotesRoundTrip ==
  "appended" \in DOMAIN op => get_interview_notes(Controller) = op.appended

\* three operations of three kinds have run, the second a recorded response
C22_Witness ==
  /\ "appended" \in DOMAIN op
  /\ op.name = "add_final_evaluation"
  /\ Len(interview_notes) >= 3
  /\ interview_notes[1] = Note(INTRODUCTION, <<"Welcome">>)
  /\ interview_notes[2] = Note(INTRODUCTION, <<"Candidate: ", "I like graphs">>)
  /\ interview_notes[Len(interview_notes)].stage = FINAL_EVALUATION

\* C23: a session's transcript is append-only: across the session
\* operations (start, candidate-response processing, code submission, final
\* evaluation, reconfiguration of the generation client) the transcript read
\* before an operation is a prefix of the transcript read after it.
IsPrefix(a, b) == Len(a) <= Len(b) /\ SubSeq(b, 1, Len(a)) = a

C23_TranscriptAppendOnly ==
  [][op'.name # "sweep" =>
       IsPrefix(get_interview_notes(Coordinator), get_interview_notes(Coordinator)')]_vars

\* C24: a text that contains "hire" and, later in character position,
\* "not recommend", the last occurrence of the no-hire keyword being the
\* later one, is read as the decision no_hire.
C24_LastOccurrenceWins ==
  (/\ op.name = "extract_recommendation"
   /\ rfind(Chars(op.response), Spell("hire")) >= 0
   /\ rfind(Chars(op.response), Spell("not recommend"))
        > rfind(Chars(op.response), Spell("hire")))
    => op.rec.decision = "no_hire"

\* C25: when the generated text holds a valid balanced-brace block with the
\* key correctness (its values may hold nested blocks; other blocks without
\* the recognised keys may precede it), the Code Evaluator returns that
\* block parsed: every member of the block is in the record with its value,
\* only a missing or empty feedback being replaced by the whole text.
RECURSIVE Depth(_, _)
Depth(t, i) ==
  IF i = 0 THEN 0
  ELSE Depth(t, i - 1) + (IF t[i] = "{" THEN 1 ELSE IF t[i] = "}" THEN -1 ELSE 0)

\* the outermost balanced blocks, as <<first, last>> positions
Blocks(t) ==
  {b \in (1..Len(t)) \X (1..Len(t)) :
     /\ b[1] < b[2] /\ t[b[1]] = "{" /\ t[b[2]] = "}"
     /\ Depth(t, b[1] - 1) = 0 /\ Depth(t, b[2]) = 0
     /\ \A k \in b[1]..(b[2] - 1) : Depth(t, k) > 0}

\* the members at the top level of a block
TopMembers(t, b) ==
  {JsonMembers[t[k]] : k \in {n \in b[1]..b[2] : Depth(t, n) = 1 /\ t[n] \in DOMAIN JsonMembers}}

C25_BalancedBlockReturned ==
  (op.name = "code_evaluator" /\ ~op.exc) =>
    \A b \in Blocks(op.response) :
      (\E m \in TopMembers(op.response, b) : m.key = "correctness") =>
        \A m \in TopMembers(op.response, b) :
          /\ m.key \in DOMAIN op.rec
          /\ op.rec[m.key] = IF m.key = "feedback" /\ m.val = <<>>
                              THEN op.response ELSE m.val

\* C26: present_coding_problem returns and records the rewritten intro
\* followed by the base response from the marker "Problem:" onward exactly
\* when the context is given and is not the could-not-extract placeholder,
\* the rewritten intro has fewer than 50 words and the marker occurs
\* anywhere in the base response; otherwise it returns the base response.
\* Either way exactly one CODING_PROBLEM entry is appended.
Base == op.calls[1].out

Rewritten == op.calls[2].out

Splices ==
  /\ op.response \notin {NONE, <<>>}
  /\ LowerAtom(op.response[1]) # "i could not extract"
  /\ WordCount(Rewritten) < 50
  /\ \E i \in 1..Len(Base) : Base[i] = "Problem:"

FromMarker ==
  SubSeq(Base, CHOOSE i \in 1..Len(Base) :
                 Base[i] = "Problem:" /\ \A j \in 1..(i - 1) : Base[j] # "Problem:",
         Len(Base))

C26_SpliceExactlyWhen ==
  (op.name = "present_coding_problem" /\ ~op.exc) =>
    /\ op.ret = IF Splices THEN Rewritten \o <<"\n\n">> \o FromMarker ELSE Base
    /\ interview_notes = Append(Entered.notes, Note(CODING_PROBLEM, op.ret))

\* C27: every score field of a record the evaluators produce (correctness,
\* code_quality, technical_skill, problem_solving, communication,
\* overall_rating), parsed from a block or read from prose, is an integer
\* from 0 to 10 or is absent, never another number.
ScoreFields ==
  {"correctness", "code_quality", "technical_skill", "problem_solving",
   "communication", "overall_rating"}

C27_ScoresInRange ==
  (op.name \in {"code_evaluator", "final_evaluator"} /\ ~op.exc) =>
    \A f \in ScoreFields \cap DOMAIN op.rec :
      op.rec[f] = NoScore \/ op.rec[f] \in 0..10

\* C28: from the moment a session has a coordinator until its final
\* evaluation or the idle sweep, every request of the session leaves the
\* same coordinator object registered for it, and the final evaluation of
\* the session and the sweep of an idle session drop the object.
Ends(session_id) ==
  \/ op'.name = "sweep"
  \/ op'.name = "final" /\ op'.session = session_id

C28_OneCoordinatorPerSession ==
  [][\A session_id \in DOMAIN sessions.coordinators :
       /\ ~Ends(session_id) =>
            /\ session_id \in DOMAIN sessions'.coordinators
            /\ sessions'.coordinators[session_id].id = sessions.coordinators[session_id].id
       /\ (op'.name = "final" /\ op'.session = session_id) =>
            session_id \notin DOMAIN sessions'.coordinators]_vars

\* C29: creating a session's coordinator with the generation-client
\* configuration succeeds and registers the coordinator for the session.
C29_ConfiguredCreationSucceeds ==
  [][op'.name = "create" => (~op'.exc /\ coordinators')]_vars

\* C30: when a code-like response is processed at CODING_PROBLEM through
\* the response entry point, the problem statement passed to the code
\* evaluator and stored as the current problem is the content of the
\* latest entry that present_coding_problem appended, not a candidate
\* entry.
Presented(notes) ==
  {i \in 1..Len(notes) :
     /\ notes[i].stage = CODING_PROBLEM
     /\ ~IsCandidateEntry(notes[i])}

LastPresented(notes) ==
  notes[CHOOSE i \in Presented(notes) : \A j \in Presented(notes) : j <= i].content

C30_CurrentProblemIsPresented ==
  [][(/\ op'.name = "respond"
      /\ op'.stage_in = CODING_PROBLEM
      /\ op'.branch = "code"
      /\ Presented(interview_notes) # {})
     => /\ interview_context'.current_problem = LastPresented(interview_notes)
        /\ \A i \in 1..Len(op'.calls) :
             op'.calls[i].kind = "code_evaluation"
               => op'.calls[i].args[2] = LastPresented(interview_notes)]_vars

\* C31: every text that candidate-response processing returns has been
\* appended to the transcript by the step that returns it, whatever the
\* stage branch.
C31_ReturnedTextRecorded ==
  [][(op'.name = "respond" /\ op'.branch # "reinitialize" /\ ~op'.exc)
       => \E i \in 1..Len(Appended) : Appended[i].content = op'.ret]_vars

\* C32: when the code evaluator's generation call fails, in the code branch
\* at CODING_PROBLEM or in a direct code submission, the failure reaches the
\* caller, and the submission list, the evaluation entries of the transcript
\* and the stage are as before the call.
EvaluatorFailed ==
  \E i \in 1..Len(op'.calls) :
    op'.calls[i].kind = "code_evaluation" /\ op'.calls[i].out = FAIL

C32_EvaluatorFailurePropagates ==
  [][(op'.name \in {"respond", "code", "evaluate-code"} /\ EvaluatorFailed)
       => /\ op'.exc
          /\ interview_context'.code_submissions = interview_context.code_submissions
          /\ current_stage' = current_stage
          /\ IsPrefix(interview_notes, interview_notes')
          /\ \A i \in 1..Len(Appended) :
               /\ Appended[i].stage # CODE_EVALUATION
               /\ "problem_statement" \notin DOMAIN Appended[i]]_vars

C32_Witness ==
  /\ op.name = "respond"
  /\ op.branch = "code"
  /\ op.stage_in = CODING_PROBLEM
  /\ op.exc
  /\ \E i \in 1..Len(op.calls) :
       op.calls[i].kind = "code_evaluation" /\ op.calls[i].out = FAIL
  /\ current_stage = CODING_PROBLEM

\* C33: the sweep, running beside the requests, removes a session's
\* coordinator only if the session's last activity is older than the idle
\* threshold at the moment of the removal, so no request that has obtained
\* its coordinator writes its state to an object that was dropped under it.
C33_SweepReclaimsOnlyIdle ==
  [][/\ (op'.name = "remove" /\ op'.stamped) => op'.idle
     /\ op'.name = "served" => ~op'.lost]_vars

\* C34: whenever the final-evaluation request answers with a record made
\* because the evaluation failed (no generation call of the final evaluator
\* returned a text), the record is the fixed degraded one: the four scores
\* are 5 and the recommendation is undecided with low confidence.
EvaluationFailed ==
  /\ op.name = "final"
  /\ ~\E i \in 1..Len(op.calls) :
        op.calls[i].kind = "final_evaluation" /\ op.calls[i].out \notin {FAIL, KEYERROR}

C34_FailureRecordIsDegraded ==
  EvaluationFailed =>
    /\ op.rec.technical_skill = DegradedScore
    /\ op.rec.problem_solving = DegradedScore
    /\ op.rec.communication = DegradedScore
    /\ op.rec.overall_rating = DegradedScore
    /\ op.rec.recommendation = [decision |-> "undecided", confidence |-> "low"]

\* C35: with every generation call succeeding, an interview in which the
\* candidate keeps responding and sends a code-like response once at
\* CODING_PROBLEM eventually is at FINAL_EVALUATION with the final
\* evaluation recorded in the transcript, and the first response processed
\* at CODE_EVALUATION is the one that records it.
FinalEntries(notes) ==
  {i \in 1..Len(notes) :
     /\ notes[i].stage = FINAL_EVALUATION
     /\ ~IsCandidateEntry(notes[i])}

FinalRecorded ==
  current_stage = FINAL_EVALUATION /\ FinalEntries(interview_notes) # {}

C35_ReachesFinalEvaluation ==
  /\ <>FinalRecorded
  /\ [][RespondAt(CODE_EVALUATION) => (~FinalRecorded /\ FinalRecorded')]_vars

C35_Witness ==
  /\ FinalRecorded
  /\ op.name = "respond"
  /\ op.stage_in = CODE_EVALUATION
  /\ Len(interview_context.code_submissions) = 1
  /\ \E i \in 1..Len(interview_notes) : interview_notes[i].stage = CODING_PROBLEM

\* C36: in an interview driven by start and candidate responses only,
\* with generation calls that return or raise, the stage is always one of
\* INTRODUCTION, TECHNICAL_QUESTIONS, CODING_PROBLEM, CODE_EVALUATION and
\* FINAL_EVALUATION, and each processed response leaves the stage where it
\* is or moves it to the next stage of that sequence.
StageOrder ==
  <<INTRODUCTION, TECHNICAL_QUESTIONS, CODING_PROBLEM, CODE_EVALUATION,
    FINAL_EVALUATION>>

Position(stage) == CHOOSE i \in 1..Len(StageOrder) : StageOrder[i] = stage

C36_StagesInOrder ==
  [][/\ \E i \in 1..Len(StageOrder) : StageOrder[i] = current_stage'
     /\ op'.name = "start" => current_stage' = current_stage
     /\ op'.name = "respond" =>
          Position(current_stage') - Position(current_stage) \in {0, 1}]_vars

C36_Witness ==
  /\ op.name = "respond"
  /\ op.exc
  /\ op.stage_in = TECHNICAL_QUESTIONS
  /\ current_stage = CODING_PROBLEM

\* C37: the evaluation entries of the transcript are as many as the code
\* submissions of the context, and the i-th of them carries the feedback
\* of the i-th submission's evaluation.
EvaluationEntries ==
  SelectSeq(interview_notes, LAMBDA note : "problem_statement" \in DOMAIN note)

C37_EntriesMatchSubmissions ==
  /\ Len(EvaluationEntries) = Len(interview_context.code_submissions)
  /\ \A i \in 1..Len(EvaluationEntries) :
       EvaluationEntries[i].content =
         Get(interview_context.code_submissions[i].evaluation, "feedback", <<>>)

\* C38: whenever the stage is CODING_PROBLEM the transcript holds an entry
\* that present_coding_problem appended, and whenever it is
\* TECHNICAL_QUESTIONS an entry that ask_technical_questions appended, also
\* after a generation call has raised part-way through a step.
InterviewerEntries(stage) ==
  {i \in 1..Len(interview_notes) :
     /\ interview_notes[i].stage = stage
     /\ ~IsCandidateEntry(interview_notes[i])}

C38_StageHasItsEntry ==
  /\ current_stage = CODING_PROBLEM => InterviewerEntries(CODING_PROBLEM) # {}
  /\ current_stage = TECHNICAL_QUESTIONS => InterviewerEntries(TECHNICAL_QUESTIONS) # {}

\* C39: between the operations of the session manager, run one at a time
\* and whether or not they raise, the session ids that have a coordinator
\* are the session ids that have a last-activity stamp.
C39_CoordinatorsMatchStamps ==
  DOMAIN sessions.coordinators = sessions.last_activity

C39_Witness ==
  /\ op.name = "reinitialize"
  /\ op.exc
  /\ op.session \notin sessions.last_activity
  /\ sessions.last_activity # {}
  /\ released # {}

====
